---- MODULE Spec2Model ----
(***************************************************************************)
(* Model of the hpc-actions release workflow (action/src/action.ts):       *)
(* runAction invocations, each on its own clone and docker daemon, acting  *)
(* on one git remote, one docker registry and one forge.                   *)
(*                                                                         *)
(* Every await of runAction that talks to the remote, the registry or the  *)
(* forge is one action of the model; the local git and docker calls that   *)
(* follow it up to the next such await belong to the same action.          *)
(***************************************************************************)
EXTENDS Naturals, Sequences, FiniteSets, TLC

VARIABLES
    runs,           \* the invocations of runAction: their locals and position
    remoteTags,     \* refs/tags/* of the git remote
    remoteBranches, \* refs/heads/mergeback/* of the git remote
    registry,       \* the docker registry: docker tag -> image metadata
    pulls,          \* the pull requests opened through the forge
    pushed          \* history: every <<docker tag, image>> ever pushed

vars == <<runs, remoteTags, remoteBranches, registry, pulls, pushed>>

\* ------------------------------------------------------------------------
\* Bounds and the inputs of the model

\* Number of runAction invocations that run concurrently
NumRuns == 2

\* Number of runAction invocations that run one after the other
NumSeqRuns == 3

Runs == 1..(IF NumRuns > NumSeqRuns THEN NumRuns ELSE NumSeqRuns)

None == "none"

\* The commits of the repository, as in the test repositories of
\* action.spec.ts: "a" is the first commit, "b" an empty follow-up of "a"
\* (same tree), "c" a follow-up of "a" that adds a file without changing
\* the version in package.json.
Commits == {"a", "b", "c"}

parentOf == [a |-> None, b |-> "a", c |-> "a"]

treeOf == [a |-> "t1", b |-> "t1", c |-> "t2"]

versionOf == [a |-> "1.2.0", b |-> "1.2.0", c |-> "1.2.0"]

Versions == {versionOf[c] : c \in Commits}

\* A docker image is its embedded metadata
ImageOf(commit) == [commitSha |-> commit, treeSha |-> treeOf[commit]]

\* An image that was built from a tree that is none of the commits'
ForeignImage == [commitSha |-> "foo", treeSha |-> "bar"]

Images == {ImageOf(c) : c \in Commits} \cup {ForeignImage}

\* No image: what a docker tag that does not exist resolves to
NoImage == [commitSha |-> None, treeSha |-> None]

\* Branch names are sequences of their path segments
ProdBranch == <<"env", "prod">>

\* config.stagingEnvironmentBranch
StagingBranch == <<"env", "staging">>

\* config.developmentEnvironmentBranches
DevelopmentBranches == <<  <<"env", "dev">>  >>

RECURSIVE Join(_, _)
Join(segs, sep) ==
    IF Len(segs) = 0 THEN ""
    ELSE IF Len(segs) = 1 THEN segs[1]
    ELSE segs[1] \o sep \o Join(Tail(segs), sep)

InSeq(x, s) == \E i \in 1..Len(s) : s[i] = x

StartsWith(branch, prefix) == Len(branch) >= 2 /\ branch[1] = prefix

\* ------------------------------------------------------------------------
\* Pure helpers of action.ts

\* The part of the configuration that determineMode reads, as the
\* invocations of the workflow have it
DefaultConfig ==
    [stagingEnvironmentBranch |-> StagingBranch,
     developmentEnvironmentBranches |-> DevelopmentBranches]

\* determineMode with every branch under env/ but env/prod held to the list
\* of development branches
determineModeProdFirst(config, branch) ==
    IF branch = ProdBranch THEN "env-production"
    ELSE IF InSeq(branch, config.developmentEnvironmentBranches)
    THEN "env-development"
    ELSE IF StartsWith(branch, "env") THEN "error"
    ELSE IF branch = config.stagingEnvironmentBranch THEN "env-staging"
    ELSE IF StartsWith(branch, "hotfix") THEN "hotfix"
    ELSE IF StartsWith(branch, "release") THEN "release"
    ELSE IF branch = <<"develop">> THEN "develop"
    ELSE "other"

\* determineMode (config, branch): the workflow mode of a branch, or "error"
\* for a branch under env/ that is not configured
determineMode(config, branch) ==
    IF branch = ProdBranch THEN "env-production"
    ELSE IF branch = config.stagingEnvironmentBranch THEN "env-staging"
    ELSE IF InSeq(branch, config.developmentEnvironmentBranches)
    THEN "env-development"
    ELSE IF StartsWith(branch, "env") THEN "error"
    ELSE IF StartsWith(branch, "hotfix") THEN "hotfix"
    ELSE IF StartsWith(branch, "release") THEN "release"
    ELSE IF branch = <<"develop">> THEN "develop"
    ELSE "other"

\* The error determineMode throws for a branch under env/ that is not
\* configured
InvalidBranch(config, branch) ==
    "Invalid development branch: " \o Join(branch, "/") \o ", must be one of: "
    \o Join([i \in DOMAIN config.developmentEnvironmentBranches |->
                Join(config.developmentEnvironmentBranches[i], "/")], ", ")

\* `v${version}`
GitTag(version) == "v" \o version

\* `${tag}-pre`
PreTag(tag) == tag \o "-pre"

\* branch.replace(/\//g, '-')
DevTag(branch) == Join(branch, "-")

\* `mergeback/${branch.substr(4)}/${version}`
MergebackBranch(branch, version) ==
    "mergeback/" \o Join(Tail(branch), "/") \o "/" \o version

GitTags == {GitTag(v) : v \in Versions}

DockerTags ==
    GitTags \cup {PreTag(t) : t \in GitTags}
        \cup {DevTag(DevelopmentBranches[i]) : i \in 1..Len(DevelopmentBranches)}

MergebackBranches ==
    {MergebackBranch(b, v) : b \in {ProdBranch, StagingBranch}, v \in Versions}

\* The ancestry of git: ancestor is oid or is reachable from oid by parents
RECURSIVE IsAncestor(_, _)
IsAncestor(ancestor, oid) ==
    IF oid = None THEN FALSE
    ELSE IF oid = ancestor THEN TRUE
    ELSE IsAncestor(ancestor, parentOf[oid])

\* git.isDescendent({ancestor, oid}) of isomorphic-git: it answers false
\* when oid is ancestor itself ("if (oid === ancestor) return false"), and
\* otherwise whether ancestor is among the parents reachable from oid
isDescendent(ancestor, oid) ==
    IF oid = ancestor THEN FALSE
    ELSE IsAncestor(ancestor, oid)

\* The docker tag that a run builds and pushes
TargetTag(run) ==
    IF run.mode = "env-production" THEN GitTag(versionOf[run.head])
    ELSE IF run.mode = "env-development" THEN DevTag(run.branch)
    ELSE PreTag(GitTag(versionOf[run.head]))

\* opts.checkBehaviour of buildAndPushDockerImage, as each mode passes it
CheckBehaviour(run) ==
    IF run.mode = "env-production"
    THEN [check |-> TRUE, checkStrict |-> TRUE,
          alsoCheck |-> <<PreTag(GitTag(versionOf[run.head]))>>]
    ELSE IF run.mode = "env-staging"
    THEN [check |-> TRUE, checkStrict |-> FALSE,
          alsoCheck |-> <<GitTag(versionOf[run.head])>>]
    ELSE [check |-> FALSE, checkStrict |-> FALSE, alsoCheck |-> <<>>]

MatchCond(tag, sha) ==
    [mode |-> "match", gitTag |-> tag, sha |-> sha, onError |-> FALSE]

NonExistantCond(tag, onError) ==
    [mode |-> "non-existant", gitTag |-> tag, sha |-> None, onError |-> onError]

NoCond == [mode |-> "none", gitTag |-> None, sha |-> None, onError |-> FALSE]

\* A checkTag that, for staging, goes by the tag known at the start alone,
\* whether the image was retagged or built
CheckTagByKnownTag(run) ==
    LET tag == GitTag(versionOf[run.head]) IN
    IF run.mode \in {"env-production", "env-staging"}
    THEN IF run.tagSha # None THEN MatchCond(tag, run.tagSha)
         ELSE NonExistantCond(tag, FALSE)
    ELSE IF run.mode \in {"hotfix", "release"} THEN NonExistantCond(tag, TRUE)
    ELSE NoCond

\* opts.checkTag of buildAndPushDockerImage, as each mode passes it, with a
\* 'conditional' one resolved on existingMatchingImage
CheckTag(run) ==
    LET tag == GitTag(versionOf[run.head]) IN
    IF run.mode = "env-production" THEN MatchCond(tag, run.tagSha)
    ELSE IF run.mode = "env-staging"
    THEN IF run.existing # None
         THEN IF run.tagSha # None
              THEN MatchCond(tag, run.tagSha)
              ELSE NonExistantCond(tag, FALSE)
         ELSE NonExistantCond(tag, FALSE)
    ELSE IF run.mode \in {"hotfix", "release"} THEN NonExistantCond(tag, TRUE)
    ELSE NoCond

\* ------------------------------------------------------------------------
\* Pull requests and their authors

GITHUB_ACTIONS_USER_ID == 41898282

DEPENDABOT_USER_ID == 49699333

UNOCHA_HPC_USER_ID == 90184116

\* String.prototype.toLowerCase on the user types that occur
ToLowerCase(type) ==
    IF type = "Bot" THEN "bot" ELSE IF type = "User" THEN "user" ELSE type

\* Pull request authors: login is kept as the known prefix it starts with
\* ("other" when it starts with none)
HumanUser == [id |-> 1, login |-> "other", type |-> "User"]

\* commentMode that knows authors by id only
commentModeById(pr) ==
    IF pr.user.id \in {UNOCHA_HPC_USER_ID, GITHUB_ACTIONS_USER_ID} THEN "comment"
    ELSE IF pr.user.id = DEPENDABOT_USER_ID THEN "none"
    ELSE "review"

\* commentMode (pr): how to give feedback on a pull request of this author
commentMode(pr) ==
    IF \/ pr.user.id = UNOCHA_HPC_USER_ID
       \/ pr.user.id = GITHUB_ACTIONS_USER_ID
       \/ (pr.user.login = "github-actions" /\ ToLowerCase(pr.user.type) = "bot")
    THEN "comment"
    ELSE IF \/ pr.user.id = DEPENDABOT_USER_ID
            \/ (pr.user.login = "dependabot" /\ ToLowerCase(pr.user.type) = "bot")
    THEN "none"
    ELSE "review"

\* The pull requests open for the pushed branch, as the forge reports them:
\* their number, and base.ref, the author and the head of base.ref of the first
NoPR == [count |-> 0, base |-> <<>>, baseSha |-> None, user |-> HumanUser]

OnePR(base, baseSha) ==
    [count |-> 1, base |-> base, baseSha |-> baseSha, user |-> HumanUser]

\* config.ci
CICommands == <<"npm run check-types", "npm run test">>

\* config.mergebackLabels
MergebackLabels == <<"some-label">>

\* config.deployments.environments
Deployments == << [branch |-> ProdBranch, environment |-> "prod"] >>

\* Other values of config.deployments: absent, and with a binding for each
\* environment branch and a second one for env/prod
NoDeployments == <<>>

AllDeployments ==
    << [branch |-> ProdBranch, environment |-> "prod"],
       [branch |-> StagingBranch, environment |-> "staging"],
       [branch |-> <<"env", "dev">>, environment |-> "dev"],
       [branch |-> ProdBranch, environment |-> "prod-mirror"] >>

DeploymentConfigs == {NoDeployments, Deployments, AllDeployments}

\* ------------------------------------------------------------------------
\* The push events handled

EnvPushes ==
    {[branch |-> ProdBranch, head |-> c, pr |-> NoPR] : c \in Commits}
    \cup {[branch |-> StagingBranch, head |-> c, pr |-> NoPR] : c \in {"a", "c"}}

PullRequestPushes ==
    {[branch |-> <<"hotfix", "x">>, head |-> "c", pr |-> OnePR(ProdBranch, "a")],
     [branch |-> <<"release", "x">>, head |-> "b", pr |-> OnePR(StagingBranch, "a")]}

Pushes == EnvPushes \cup PullRequestPushes

\* ------------------------------------------------------------------------
\* State

NoImages == [t \in DockerTags |-> NoImage]

\* No event read yet
NoEvent ==
    [name |-> None, ref |-> <<>>, remotes |-> 1, manifest |-> "ok",
     currentBranch |-> <<>>, push |-> [branch |-> <<>>, head |-> None, pr |-> NoPR]]

\* An invocation that has not started
IdleRun ==
    [pc |-> "idle", branch |-> <<>>, head |-> None, mode |-> None, pr |-> NoPR,
     tagSha |-> None, localTag |-> None, localRef |-> None,
     localImg |-> NoImages,
     also |-> <<>>, existing |-> None, result |-> None, errorClass |-> None,
     deployments |-> Deployments, config |-> DefaultConfig,
     calls |-> <<>>, atPush |-> "unset", event |-> NoEvent]

\* The world before any push: no tag, no mergeback branch, no image
CleanWorld ==
    /\ remoteTags = [t \in GitTags |-> None]
    /\ remoteBranches = [b \in MergebackBranches |-> None]
    /\ registry = NoImages
    /\ pulls = {}
    /\ pushed = {}

\* An invocation that takes no part in the behaviour
OffRun == [IdleRun EXCEPT !.pc = "off"]

Init ==
    /\ runs = [r \in Runs |-> IF r <= NumRuns THEN IdleRun ELSE OffRun]
    /\ CleanWorld

Terminated(run) == run.pc \in {"done", "failed", "off"}

Call(run, call) == [run EXCEPT !.calls = Append(@, call)]

\* throw new Error(message)
Throw(run, message) ==
    [run EXCEPT !.pc = "failed", !.result = message, !.errorClass = "Error"]

\* throw new NoPullRequestError(message)
ThrowNoPullRequest(run, message) ==
    [run EXCEPT !.pc = "failed", !.result = message,
                !.errorClass = "NoPullRequestError"]

\* runAction returns
Return(run) == [run EXCEPT !.pc = "done", !.result = "ok"]

Goto(run, pc) == [run EXCEPT !.pc = pc]

HasCall(run, name) == \E i \in 1..Len(run.calls) : run.calls[i][1] = name

DockerCalls == {"login", "pullImage", "runBuild", "retagImage", "pushImage"}

ForgeCalls ==
    {"getOpenPullRequests", "openPullRequest", "createDeployment",
     "reviewPullRequest", "commentOnPullRequest"}

\* failWithPRComment that throws only
failWithPRCommentUnposted(run, error) == Throw(run, error)

\* failWithPRComment that posts what a run that ended well posts
failWithPRCommentApproving(run, error) ==
    LET cMode == commentMode(run.pr) IN
    Throw(IF cMode = "comment"
          THEN Call(run, <<"commentOnPullRequest", "success">>)
          ELSE IF cMode = "review" THEN Call(run, <<"reviewPullRequest", "approve">>)
          ELSE run,
          error)

\* failWithPRComment: comment on or reject the pull request, then throw
failWithPRComment(run, error) ==
    LET cMode == commentMode(run.pr) IN
    Throw(IF cMode = "comment"
          THEN Call(run, <<"commentOnPullRequest", "failure">>)
          ELSE IF cMode = "review" THEN Call(run, <<"reviewPullRequest", "reject">>)
          ELSE run,
          error)

\* `git fetch <remote> <tag>:<tag>` in a clone whose refs/heads/<tag>, the
\* destination that git makes of the bare name <tag>, is local, against a
\* remote whose refs/tags/<tag> is remote: "absent" is "fatal: couldn't find
\* remote ref" (exit 128), "rejected" is "! [rejected] (non-fast-forward)"
\* (exit 1) for a destination that the remote tag does not descend from
GitFetchTag(local, remote) ==
    IF remote = None THEN "absent"
    ELSE IF local = None \/ IsAncestor(local, remote) THEN "ok"
    ELSE "rejected"

\* The refs of the clone after a fetch that succeeded: the destination is at
\* the remote tag, and refs/tags/<tag> follows if the clone had no such tag
Fetched(run, remote) ==
    [run EXCEPT !.localRef = remote,
                !.localTag = IF @ = None THEN remote ELSE @]

\* A dispatch that has development branches look for an existing image
FirstStepChecking(mode) ==
    IF mode \in {"env-production", "env-staging"} THEN "fetchTag"
    ELSE IF mode = "env-development" THEN "pullTarget"
    ELSE "getPR"

\* The position at which a mode starts, after the checks common to all pushes
FirstStep(mode) ==
    IF mode \in {"env-production", "env-staging"} THEN "fetchTag"
    ELSE IF mode = "env-development" THEN "build"
    ELSE "getPR"

SetRun(r, run) == runs' = [runs EXCEPT ![r] = run]

\* runAction as it was when pushes to develop ran the CI commands
StartedWithCI(run, p) ==
    LET mode == determineMode(run.config, p.branch)
        started == [run EXCEPT !.branch = p.branch, !.head = p.head,
                               !.pr = p.pr, !.mode = mode]
    IN  IF mode = "error"
        THEN Throw(started, InvalidBranch(run.config, p.branch))
        ELSE IF mode = "develop" THEN Goto(started, "runCI")
        ELSE Goto(started, FirstStep(mode))

\* runAction is invoked for push p: the mode is determined and dispatched
\* on; no branch of the dispatch is for mode develop, for which runAction
\* returns
Started(run, p) ==
    LET mode == determineMode(run.config, p.branch)
        started == [run EXCEPT !.branch = p.branch, !.head = p.head,
                               !.pr = p.pr, !.mode = mode]
    IN  IF mode = "error"
        THEN Throw(started, InvalidBranch(run.config, p.branch))
        ELSE IF mode = "develop" THEN Return(started)
        ELSE Goto(started, FirstStep(mode))

\* Invocations are numbered in the order in which they start
NextToStart(r) ==
    /\ runs[r].pc = "idle"
    /\ \A q \in Runs : q < r => runs[q].pc # "idle"

\* An invocation starts, whatever the others are doing
Start ==
    \E r \in Runs, p \in Pushes :
        /\ NextToStart(r)
        /\ SetRun(r, Started(runs[r], p))
        /\ UNCHANGED <<remoteTags, remoteBranches, registry, pulls, pushed>>

\* ------------------------------------------------------------------------
\* env-production / env-staging: the git tag

BranchName(run) == Join(run.branch, "/")

RunTag(run) == GitTag(versionOf[run.head])

\* The tag that a fetch brought, resolved: git.resolveRef of refs/tags/<tag>
TagResolved(run, remote) ==
    LET fetched == Fetched(run, remote) IN
    [fetched EXCEPT !.tagSha = fetched.localTag]

\* A tag check that takes every tag it finds for a missing version bump
TagCheckedRejecting(run, remote) ==
    Throw(TagResolved(run, remote),
          "New push to " \o BranchName(run) \o " without bumping version")

\* A tag check that compares commits where the code compares trees
TagCheckedByCommit(run, remote) ==
    LET seen == TagResolved(run, remote) IN
    IF remote # run.head
    THEN Throw(seen, "New push to " \o BranchName(run)
                     \o " without bumping version")
    ELSE Goto(seen, "pullTarget")

\* What the first fetch of the tag found: a tag, with the tree check that
\* follows, or no tag, with the local tag that production then creates
TagChecked(run, remote) ==
    LET seen == TagResolved(run, remote) IN
    IF treeOf[remote] # treeOf[run.head]
    THEN Throw(seen, "New push to " \o BranchName(run)
                     \o " without bumping version")
    ELSE Goto(seen, "pullTarget")

\* A tag step in which every mode creates the missing tag
TagAbsentMinting(run) ==
    Goto([run EXCEPT !.localTag = run.head, !.tagSha = run.head], "pushTag")

\* A tag step in which production creates its tag and goes on to the image
\* without pushing it
TagAbsentUnpushed(run) ==
    IF run.mode = "env-production"
    THEN Goto([run EXCEPT !.localTag = run.head, !.tagSha = run.head], "pullTarget")
    ELSE Goto(run, "pullTarget")

\* No tag on the remote: production creates the tag at HEAD and pushes it,
\* staging goes on to the image
TagAbsent(run) ==
    IF run.mode = "env-production"
    THEN Goto([run EXCEPT !.localTag = run.head, !.tagSha = run.head], "pushTag")
    ELSE Goto(run, "pullTarget")

\* fetchTag(tag), and what runAction does with its answer up to the next await
FetchTag ==
    \E r \in Runs :
        LET remote == remoteTags[RunTag(runs[r])]
            outcome == GitFetchTag(runs[r].localRef, remote)
            run == Call(runs[r], <<"fetchTag", RunTag(runs[r]), outcome, remote>>)
        IN  /\ runs[r].pc = "fetchTag"
            /\ SetRun(r, IF outcome = "ok" THEN TagChecked(run, remote)
                         ELSE IF outcome = "absent" THEN TagAbsent(run)
                         ELSE Throw(run, "git fetch failed"))
            /\ UNCHANGED <<remoteTags, remoteBranches, registry, pulls, pushed>>

\* A remote that takes every push of a tag, as after `git push --force`
RemoteAcceptsTagForced(remote, local) == TRUE

\* What the remote does with `git push <remote> <tag>` of a tag that points
\* to local: it creates the tag, or leaves an equal one; it rejects the push
\* of a tag that exists with another value
RemoteAcceptsTag(remote, local) == remote = None \/ remote = local

\* exec(`git push ${remote.remote} ${tag}`)
PushTag ==
    \E r \in Runs :
        LET run == Call(runs[r], <<"pushTag", RunTag(runs[r]), runs[r].localTag>>)
            tag == RunTag(run)
        IN  /\ runs[r].pc = "pushTag"
            /\ IF RemoteAcceptsTag(remoteTags[tag], run.localTag)
               THEN /\ remoteTags' = [remoteTags EXCEPT ![tag] = run.localTag]
                    /\ SetRun(r, Goto(run, "pullTarget"))
               ELSE /\ SetRun(r, Throw(run, "git push rejected"))
                    /\ UNCHANGED remoteTags
            /\ UNCHANGED <<remoteBranches, registry, pulls, pushed>>

\* ------------------------------------------------------------------------
\* buildAndPushDockerImage

\* docker.pullImage(tag) on the run's own docker daemon, then
\* isImagePulled && docker.getMetadata(tag)
Pulled(run, tag) ==
    IF registry[tag] = NoImage THEN run
    ELSE [run EXCEPT !.localImg[tag] = registry[tag]]

PulledImage(tag) == registry[tag]

MatchesHead(run, image) == image.treeSha = treeOf[run.head]

\* After the check of the target tag: on to the other tags, or to the build
CheckOthers(run) ==
    LET alsoCheck == CheckBehaviour(run).alsoCheck IN
    Goto([run EXCEPT !.also = alsoCheck],
         IF Len(alsoCheck) = 0 THEN "build" ELSE "pullAlso")

\* A check of the target tag that is never strict
TargetCheckedLeniently(run, image) ==
    IF image = NoImage THEN CheckOthers(run)
    ELSE IF ~MatchesHead(run, image) THEN CheckOthers(run)
    ELSE Goto(run, "deploy")

\* A check of the target tag that builds whatever it finds
TargetCheckedRebuilding(run, image) ==
    IF image = NoImage THEN CheckOthers(run)
    ELSE IF ~MatchesHead(run, image)
    THEN IF CheckBehaviour(run).checkStrict
         THEN Throw(run, "Image was built with different tree, aborting")
         ELSE CheckOthers(run)
    ELSE CheckOthers(run)

\* A check of the target tag that is strict for every mode
TargetCheckedStrictly(run, image) ==
    IF image = NoImage THEN CheckOthers(run)
    ELSE IF ~MatchesHead(run, image)
    THEN Throw(run, "Image was built with different tree, aborting")
    ELSE Goto(run, "deploy")

\* The check of the image that exists under the target tag
TargetChecked(run, image) ==
    IF image = NoImage THEN CheckOthers(run)
    ELSE IF ~MatchesHead(run, image)
    THEN IF CheckBehaviour(run).checkStrict
         THEN Throw(run, "Image was built with different tree, aborting")
         ELSE CheckOthers(run)
    ELSE Goto(run, "deploy")

\* docker.login, then the pull and check of the target tag (checkBehaviour set)
PullTarget ==
    \E r \in Runs :
        LET tag == TargetTag(runs[r])
            run == Call(Call(runs[r], <<"login">>),
                        <<"pullImage", tag, PulledImage(tag)>>)
        IN  /\ runs[r].pc = "pullTarget"
            /\ SetRun(r, TargetChecked(Pulled(run, tag), PulledImage(tag)))
            /\ UNCHANGED <<remoteTags, remoteBranches, registry, pulls, pushed>>

\* One round of the loop over checkBehaviour.alsoCheck
AlsoChecked(run, tag, image) ==
    LET rest == Tail(run.also)
        next == [run EXCEPT !.also = rest,
                            !.pc = IF Len(rest) = 0 THEN "build" ELSE "pullAlso"]
    IN  IF image # NoImage /\ MatchesHead(run, image)
        THEN [next EXCEPT !.existing = tag]
        ELSE next

PullAlso ==
    \E r \in Runs :
        LET tag == Head(runs[r].also)
            run == Call(runs[r], <<"pullImage", tag, PulledImage(tag)>>)
        IN  /\ runs[r].pc = "pullAlso"
            /\ SetRun(r, AlsoChecked(Pulled(run, tag), tag, PulledImage(tag)))
            /\ UNCHANGED <<remoteTags, remoteBranches, registry, pulls, pushed>>

\* docker.retagImage(from, to) on the images of a docker daemon: the image
\* under from is now also the image under to
Retagged(localImg, from, to) == [localImg EXCEPT ![to] = localImg[from]]

\* A build step that always builds
BuiltAnew(run) ==
    LET tag == TargetTag(run) IN
    [Call(run, <<"runBuild", tag>>) EXCEPT !.localImg[tag] = ImageOf(run.head)]

\* docker.retagImage(existingMatchingImage, tag) or docker.runBuild({tag, meta})
Built(run) ==
    LET tag == TargetTag(run) IN
    IF run.existing # None
    THEN [Call(run, <<"retagImage", run.existing, tag>>)
             EXCEPT !.localImg = Retagged(run.localImg, run.existing, tag)]
    ELSE [Call(run, <<"runBuild", tag>>)
             EXCEPT !.localImg[tag] = ImageOf(run.head)]

Build ==
    \E r \in Runs :
        LET run == IF CheckBehaviour(runs[r]).check THEN runs[r]
                   ELSE Call(runs[r], <<"login">>)
        IN  /\ runs[r].pc = "build"
            /\ SetRun(r, Goto(Built(run),
                              IF CheckTag(run).mode = "none" THEN "pushImage"
                              ELSE "postcheck"))
            /\ UNCHANGED <<remoteTags, remoteBranches, registry, pulls, pushed>>

\* The refs of the clone after the fetch of a checkTag 'match': the local
\* tag was deleted, and is at the remote tag again even when git rejects the
\* update of the destination
Refetched(run, remote) ==
    [run EXCEPT !.localTag = remote,
                !.localRef = IF GitFetchTag(@, remote) = "ok" THEN remote ELSE @]

\* A checkTag 'match' that does not compare the tag it fetched
MatchCheckedUncompared(run, cond, remote) ==
    IF GitFetchTag(run.localRef, remote) # "ok"
    THEN Throw(Refetched(run, remote), "git fetch failed")
    ELSE Goto(Refetched(run, remote), "pushImage")

\* checkTag 'match': the local tag is deleted and fetched again
MatchChecked(run, cond, remote) ==
    IF GitFetchTag(run.localRef, remote) # "ok"
    THEN Throw(Refetched(run, remote), "git fetch failed")
    ELSE IF remote # cond.sha
    THEN Throw(Refetched(run, remote), "Tag has changed, aborting")
    ELSE Goto(Refetched(run, remote), "pushImage")

\* A checkTag 'non-existant' that goes on whatever the fetch gives
NonExistantCheckedIgnored(run, cond, remote) ==
    LET doesExist == GitFetchTag(run.localRef, remote) = "ok" IN
    Goto(IF doesExist THEN Fetched(run, remote) ELSE run, "pushImage")

\* checkTag 'non-existant': the tag is fetched; any failure of the fetch
\* counts as the tag not existing
NonExistantChecked(run, cond, remote) ==
    LET doesExist == GitFetchTag(run.localRef, remote) = "ok"
        fetched == IF doesExist THEN Fetched(run, remote) ELSE run
    IN  IF doesExist
        THEN IF cond.onError
             THEN failWithPRComment(fetched, "Tag " \o cond.gitTag
                                             \o " has been created, aborting")
             ELSE Throw(fetched, "Tag " \o cond.gitTag \o " now exists, aborting")
        ELSE Goto(fetched, "pushImage")

\* The tag postcondition, evaluated after the build and before the push
PostCheck ==
    \E r \in Runs :
        LET cond == CheckTag(runs[r])
            remote == remoteTags[cond.gitTag]
            outcome == GitFetchTag(runs[r].localRef, remote)
            run == Call(runs[r], <<"checkTag", cond.mode, cond.gitTag, outcome,
                                   IF outcome = "ok" THEN remote ELSE None>>)
        IN  /\ runs[r].pc = "postcheck"
            /\ SetRun(r, IF cond.mode = "match"
                         THEN MatchChecked(run, cond, remote)
                         ELSE NonExistantChecked(run, cond, remote))
            /\ UNCHANGED <<remoteTags, remoteBranches, registry, pulls, pushed>>

\* A hotfix or release run that goes from its image to its feedback
AfterImageToFeedback(run) ==
    IF run.mode \in {"hotfix", "release"} THEN "feedback" ELSE "deploy"

\* A production or staging run that goes from its image to the mergeback
AfterImageToMergeback(run) ==
    IF run.mode \in {"hotfix", "release"} THEN "runCI"
    ELSE IF run.mode \in {"env-production", "env-staging"} THEN "pushMergeback"
    ELSE "deploy"

\* What follows buildAndPushDockerImage in the mode of the run
AfterImage(run) ==
    IF run.mode \in {"hotfix", "release"} THEN "runCI" ELSE "deploy"

\* docker.pushImage(tag); atPush records what the git tag of the run's
\* version is on the remote at this moment
PushImage ==
    \E r \in Runs :
        LET tag == TargetTag(runs[r])
            run == Call(runs[r], <<"pushImage", tag>>)
        IN  /\ runs[r].pc = "pushImage"
            /\ registry' = [registry EXCEPT ![tag] = run.localImg[tag]]
            /\ pushed' = pushed \cup {<<tag, run.localImg[tag]>>}
            /\ SetRun(r, Goto([run EXCEPT !.atPush = remoteTags[RunTag(run)]],
                              AfterImage(run)))
            /\ UNCHANGED <<remoteTags, remoteBranches, pulls>>

\* ------------------------------------------------------------------------
\* Deployment, mergeback branch and mergeback pull request

\* Every deployment referring to HEAD
DeploymentRefHead(run) == run.head

\* The commit and docker tag a deployment refers to
DeploymentRef(run) ==
    IF run.mode = "env-production" THEN run.tagSha ELSE run.head

RECURSIVE DeploymentCalls(_, _)
DeploymentCalls(run, environments) ==
    IF Len(environments) = 0 THEN <<>>
    ELSE (IF Head(environments).branch = run.branch
          THEN << <<"createDeployment", Head(environments).environment,
                    TargetTag(run), DeploymentRef(run),
                    run.mode = "env-production">> >>
          ELSE <<>>)
         \o DeploymentCalls(run, Tail(environments))

\* createDeploymentIfRequired
Deploy ==
    \E r \in Runs :
        LET run == [runs[r] EXCEPT
                        !.calls = @ \o DeploymentCalls(runs[r], runs[r].deployments)]
        IN  /\ runs[r].pc = "deploy"
            /\ SetRun(r, IF run.mode = "env-development" THEN Return(run)
                         ELSE Goto(run, "pushMergeback"))
            /\ UNCHANGED <<remoteTags, remoteBranches, registry, pulls, pushed>>

\* What the remote does with `git push <remote> <branch>` of a branch at
\* local: it creates the branch or fast-forwards it, and rejects anything else
RemoteAcceptsBranch(remote, local) ==
    remote = None \/ IsAncestor(remote, local)

\* git.branch({ref: mergebackBranch}), then the push of that branch
PushMergeback ==
    \E r \in Runs :
        LET name == MergebackBranch(runs[r].branch, versionOf[runs[r].head])
            run == Call(runs[r], <<"pushBranch", name, runs[r].head>>)
        IN  /\ runs[r].pc = "pushMergeback"
            /\ IF RemoteAcceptsBranch(remoteBranches[name], run.head)
               THEN /\ remoteBranches' = [remoteBranches EXCEPT ![name] = run.head]
                    /\ SetRun(r, Goto(run, "openPR"))
               ELSE /\ SetRun(r, Throw(run, "git push rejected"))
                    /\ UNCHANGED remoteBranches
            /\ UNCHANGED <<remoteTags, registry, pulls, pushed>>

\* Every mergeback pull request made against develop
MergebackBaseDevelop(run) == <<"develop">>

MergebackBase(run) ==
    IF run.mode = "env-production" THEN StagingBranch ELSE <<"develop">>

\* github.openPullRequest({base, head: mergebackBranch, title, labels})
OpenPullRequest ==
    \E r \in Runs :
        LET name == MergebackBranch(runs[r].branch, versionOf[runs[r].head])
            base == Join(MergebackBase(runs[r]), "/")
            run == Call(runs[r], <<"openPullRequest", base, name, MergebackLabels>>)
        IN  /\ runs[r].pc = "openPR"
            /\ pulls' = pulls \cup {[base |-> base, head |-> name,
                                      labels |-> MergebackLabels]}
            /\ SetRun(r, Return(run))
            /\ UNCHANGED <<remoteTags, remoteBranches, registry, pushed>>

\* ------------------------------------------------------------------------
\* hotfix / release / other: the pull request checks

\* The check of pullRequest.base.ref with releases held to the rule of hotfixes
BaseAllowedAlike(run) ==
    IF run.mode \in {"hotfix", "release"}
    THEN run.pr.base \in {ProdBranch, StagingBranch}
    ELSE /\ ~(run.pr.base = StagingBranch /\ ~StartsWith(run.branch, "mergeback"))
         /\ run.pr.base # ProdBranch

\* The check of pullRequest.base.ref with mergeback branches let through
\* whatever they target
BaseAllowedForMergeback(run) ==
    IF run.mode = "hotfix" THEN run.pr.base \in {ProdBranch, StagingBranch}
    ELSE IF run.mode = "release" THEN run.pr.base = StagingBranch
    ELSE \/ StartsWith(run.branch, "mergeback")
         \/ run.pr.base \notin {StagingBranch, ProdBranch}

\* The check of pullRequest.base.ref of each mode
BaseAllowed(run) ==
    IF run.mode = "hotfix" THEN run.pr.base \in {ProdBranch, StagingBranch}
    ELSE IF run.mode = "release" THEN run.pr.base = StagingBranch
    ELSE /\ ~(run.pr.base = StagingBranch /\ ~StartsWith(run.branch, "mergeback"))
         /\ run.pr.base # ProdBranch

\* getUniquePullRequest without the error class of its own: no pull request
\* is an error like any other
PullRequestCheckedPlainly(run) ==
    IF run.pr.count # 1
    THEN Throw(run,
            IF run.pr.count = 0
            THEN "The branch " \o BranchName(run) \o " has no pull requests open yet, "
                 \o "so it is not possible to run this workflow."
            ELSE "Multiple pull requests for branch " \o BranchName(run)
                 \o " are open, so it is not possible to run this workflow.")
    ELSE IF ~BaseAllowed(run)
    THEN failWithPRComment(run,
            "Pull request from "
            \o (IF run.mode = "hotfix" THEN "hotfix/ branch"
                ELSE IF run.mode = "release" THEN "release/ branch"
                ELSE BranchName(run))
            \o " made against " \o Join(run.pr.base, "/"))
    ELSE Goto(run, IF run.mode = "other" THEN "runCI" ELSE "checkTagNotUsed")

\* getUniquePullRequest, then the check of the base branch
PullRequestChecked(run) ==
    IF run.pr.count = 0
    THEN ThrowNoPullRequest(run,
            "The branch " \o BranchName(run) \o " has no pull requests open yet, "
            \o "so it is not possible to run this workflow.")
    ELSE IF run.pr.count > 1
    THEN Throw(run,
            "Multiple pull requests for branch " \o BranchName(run)
            \o " are open, so it is not possible to run this workflow.")
    ELSE IF ~BaseAllowed(run)
    THEN failWithPRComment(run,
            "Pull request from "
            \o (IF run.mode = "hotfix" THEN "hotfix/ branch"
                ELSE IF run.mode = "release" THEN "release/ branch"
                ELSE BranchName(run))
            \o " made against " \o Join(run.pr.base, "/"))
    ELSE Goto(run, IF run.mode = "other" THEN "runCI" ELSE "checkTagNotUsed")

GetPullRequest ==
    \E r \in Runs :
        /\ runs[r].pc = "getPR"
        /\ SetRun(r, PullRequestChecked(Call(runs[r], <<"getOpenPullRequests">>)))
        /\ UNCHANGED <<remoteTags, remoteBranches, registry, pulls, pushed>>

\* checkTagNotUsed with a tag at HEAD taken for the run's own
CheckTagNotUsedElsewhere ==
    \E r \in Runs :
        LET remote == remoteTags[RunTag(runs[r])]
            outcome == GitFetchTag(runs[r].localRef, remote)
            run == Call(runs[r], <<"fetchTag", RunTag(runs[r]), outcome, remote>>)
        IN  /\ runs[r].pc = "checkTagNotUsed"
            /\ SetRun(r,
                 IF outcome = "ok" /\ remote # run.head
                 THEN failWithPRComment(
                        Fetched(run, remote),
                        "Tag already exists for version " \o RunTag(run)
                        \o ", aborting.")
                 ELSE IF outcome \in {"ok", "absent"} THEN Goto(run, "fetchBase")
                 ELSE Throw(run, "git fetch failed"))
            /\ UNCHANGED <<remoteTags, remoteBranches, registry, pulls, pushed>>

\* checkTagNotUsed(tag, pullRequest)
CheckTagNotUsed ==
    \E r \in Runs :
        LET remote == remoteTags[RunTag(runs[r])]
            outcome == GitFetchTag(runs[r].localRef, remote)
            run == Call(runs[r], <<"fetchTag", RunTag(runs[r]), outcome, remote>>)
        IN  /\ runs[r].pc = "checkTagNotUsed"
            /\ SetRun(r,
                 IF outcome = "ok"
                 THEN failWithPRComment(
                        Fetched(run, remote),
                        "Tag already exists for version " \o RunTag(run)
                        \o ", aborting.")
                 ELSE IF outcome = "absent" THEN Goto(run, "fetchBase")
                 ELSE Throw(run, "git fetch failed"))
            /\ UNCHANGED <<remoteTags, remoteBranches, registry, pulls, pushed>>

\* The fetch of the base branch, then checkDescendant
FetchBase ==
    \E r \in Runs :
        LET run == Call(runs[r], <<"fetchBranch", Join(runs[r].pr.base, "/")>>)
        IN  /\ runs[r].pc = "fetchBase"
            /\ SetRun(r,
                 IF ~isDescendent(run.pr.baseSha, run.head)
                 THEN failWithPRComment(run,
                        BranchName(run)
                        \o " is not a descendant of target (base) branch "
                        \o Join(run.pr.base, "/"))
                 ELSE Goto(run, "build"))
            /\ UNCHANGED <<remoteTags, remoteBranches, registry, pulls, pushed>>

\* ------------------------------------------------------------------------
\* CI commands and feedback on the pull request

RECURSIVE CICalls(_, _)
CICalls(commands, n) ==
    IF n = 0 THEN <<>>
    ELSE CICalls(commands, n - 1) \o << <<"ci", commands[n]>> >>

\* The exit codes other than 0 that the 'exit' event of a child process
\* reports, as they print: null is that of a process ended by a signal
FailureCodes == {"1", "127", "null"}

\* execAndPipeOutput rejects: new Error(`Command "${command}" exited with
\* exit code ${code}`)
CommandFailure(command, code) ==
    "Command \"" \o command \o "\" exited with exit code " \o code

\* runCICommands that starts every command before it fails
RunCIThrough ==
    \E r \in Runs, failing \in 0..Len(CICommands), code \in FailureCodes :
        LET run == [runs[r] EXCEPT
                        !.calls = @ \o CICalls(CICommands, Len(CICommands))]
        IN  /\ runs[r].pc = "runCI"
            /\ SetRun(r, IF failing # 0
                         THEN Throw(run, CommandFailure(CICommands[failing], code))
                         ELSE Goto(run, "feedback"))
            /\ UNCHANGED <<remoteTags, remoteBranches, registry, pulls, pushed>>

\* runCICommands: the commands run in order; the first that exits with a
\* code other than 0 ends the run (failing = 0: none fails)
RunCI ==
    \E r \in Runs, failing \in 0..Len(CICommands), code \in FailureCodes :
        LET ran == IF failing = 0 THEN Len(CICommands) ELSE failing
            run == [runs[r] EXCEPT !.calls = @ \o CICalls(CICommands, ran)]
        IN  /\ runs[r].pc = "runCI"
            /\ SetRun(r, IF failing # 0
                         THEN Throw(run, CommandFailure(CICommands[failing], code))
                         ELSE Goto(run, "feedback"))
            /\ UNCHANGED <<remoteTags, remoteBranches, registry, pulls, pushed>>

\* commentOnPullRequestWithDockerInfo, or the comment of mode other
Feedback ==
    \E r \in Runs :
        LET cMode == commentMode(runs[r].pr)
            run == IF cMode = "comment"
                   THEN Call(runs[r], <<"commentOnPullRequest", "success">>)
                   ELSE IF cMode = "review"
                   THEN Call(runs[r], <<"reviewPullRequest", "approve">>)
                   ELSE runs[r]
        IN  /\ runs[r].pc = "feedback"
            /\ SetRun(r, Return(run))
            /\ UNCHANGED <<remoteTags, remoteBranches, registry, pulls, pushed>>

\* ------------------------------------------------------------------------
\* Specification: concurrent invocations on a world that only they change

Steps ==
    \/ FetchTag
    \/ PushTag
    \/ PullTarget
    \/ PullAlso
    \/ Build
    \/ PostCheck
    \/ PushImage
    \/ Deploy
    \/ PushMergeback
    \/ OpenPullRequest
    \/ GetPullRequest
    \/ CheckTagNotUsed
    \/ FetchBase
    \/ RunCI
    \/ Feedback

Next == Start \/ Steps

Spec == Init /\ [][Next]_vars

\* ------------------------------------------------------------------------
\* Specification: one invocation on any remote and registry, while somebody
\* else creates, moves or deletes tags on the remote (as the tests do during
\* runBuild)

AllPushes ==
    Pushes
    \cup {[branch |-> StagingBranch, head |-> "b", pr |-> NoPR]}
    \cup {[branch |-> <<"env", d>>, head |-> "a", pr |-> NoPR] : d \in {"dev", "dev2"}}
    \cup {[branch |-> <<"hotfix", "x">>, head |-> "a", pr |-> OnePR(ProdBranch, "a")]}

InitEnv ==
    /\ runs = [r \in Runs |-> IF r = 1 THEN IdleRun ELSE OffRun]
    /\ remoteTags \in [GitTags -> Commits \cup {None}]
    /\ remoteBranches = [b \in MergebackBranches |-> None]
    /\ registry \in [DockerTags -> Images \cup {NoImage}]
    /\ pulls = {}
    /\ pushed = {}

StartAny ==
    \E r \in Runs, p \in AllPushes, d \in DeploymentConfigs :
        /\ NextToStart(r)
        /\ SetRun(r, Started([runs[r] EXCEPT !.deployments = d], p))
        /\ UNCHANGED <<remoteTags, remoteBranches, registry, pulls, pushed>>

\* Somebody creates, force-moves or deletes a tag on the remote
MoveTag ==
    \E t \in GitTags, c \in Commits \cup {None} :
        /\ remoteTags[t] # c
        /\ remoteTags' = [remoteTags EXCEPT ![t] = c]
        /\ UNCHANGED <<runs, remoteBranches, registry, pulls, pushed>>

NextEnv == StartAny \/ Steps \/ MoveTag

SpecEnv == InitEnv /\ [][NextEnv]_vars

\* ------------------------------------------------------------------------
\* Specification: invocations one after the other, each on a fresh clone,
\* whose calls to git, docker and the forge may fail

InitSeq ==
    /\ runs = [r \in Runs |-> IF r <= NumSeqRuns THEN IdleRun ELSE OffRun]
    /\ CleanWorld

\* The next invocation starts when the ones before it have ended. Only the
\* record of the invocation just before it is kept: invocations share
\* nothing but the remote, the registry and the forge.
StartAfter ==
    \E r \in Runs, p \in Pushes :
        /\ NextToStart(r)
        /\ \A q \in Runs : q < r => Terminated(runs[q])
        /\ runs' = [q \in Runs |->
                        IF q = r THEN Started(runs[r], p)
                        ELSE IF q + 1 < r THEN OffRun
                        ELSE runs[q]]
        /\ UNCHANGED <<remoteTags, remoteBranches, registry, pulls, pushed>>

ExternalFailure == "external call failed"

\* The call a run is waiting for throws. The fetch of checkTag
\* 'non-existant' has a catch-all handler that reads any failure as "the tag
\* does not exist"; every other call has none, and the error ends the run.
CallFailed(run) ==
    IF run.pc = "postcheck" /\ CheckTag(run).mode = "non-existant"
    THEN Goto(Call(run, <<"checkTag", "non-existant", CheckTag(run).gitTag,
                          "error", None>>),
              "pushImage")
    ELSE Throw(run, ExternalFailure)

\* A failure after which the run takes back the tag it pushed
CallFailsUndoing ==
    \E r \in Runs :
        /\ runs[r].pc \notin {"idle", "off", "done", "failed", "runCI"}
        /\ SetRun(r, CallFailed(runs[r]))
        /\ remoteTags' =
              IF \E i \in 1..Len(runs[r].calls) : runs[r].calls[i][1] = "pushTag"
              THEN [remoteTags EXCEPT ![RunTag(runs[r])] = None]
              ELSE remoteTags
        /\ UNCHANGED <<remoteBranches, registry, pulls, pushed>>

CallFails ==
    \E r \in Runs :
        /\ runs[r].pc \notin {"idle", "off", "done", "failed", "runCI"}
        /\ SetRun(r, CallFailed(runs[r]))
        /\ UNCHANGED <<remoteTags, remoteBranches, registry, pulls, pushed>>

NextSeq == StartAfter \/ Steps \/ CallFails

SpecSeq == InitSeq /\ [][NextSeq]_vars

\* ------------------------------------------------------------------------
\* Specification: one invocation for a push of any kind of branch, with the
\* pull requests the forge may report for it, on a remote whose tags somebody
\* else creates, moves or deletes

\* The authors of pull requests: a person, a pull request without user (as
\* in the tests), the identities commentMode knows by id, and the logins it
\* knows by prefix and type
NoUser == [id |-> 0, login |-> "", type |-> ""]

AutomationUsers ==
    {[id |-> GITHUB_ACTIONS_USER_ID, login |-> "github-actions", type |-> "Bot"],
     [id |-> UNOCHA_HPC_USER_ID, login |-> "other", type |-> "User"],
     [id |-> 2, login |-> "github-actions", type |-> "Bot"]}

DependabotUsers ==
    {[id |-> DEPENDABOT_USER_ID, login |-> "dependabot", type |-> "Bot"],
     [id |-> 3, login |-> "dependabot", type |-> "Bot"]}

OtherUsers ==
    {HumanUser, NoUser,
     [id |-> 4, login |-> "github-actions", type |-> "User"],
     [id |-> 5, login |-> "dependabot", type |-> "User"]}

\* Dependabot opens its pull requests from branches under dependabot/
PullRequestBranches ==
    {<<"hotfix", "x">>, <<"release", "x">>, <<"feature">>,
     <<"mergeback", "x">>, <<"dependabot", "x">>}

AuthorsOf(branch) ==
    AutomationUsers \cup OtherUsers
    \cup (IF branch[1] = "dependabot" THEN DependabotUsers ELSE {})

PullRequestBases == {ProdBranch, StagingBranch, <<"develop">>}

\* The pushes to branches that need a pull request: with one pull request,
\* of any author, base and base head; with none; with several
AllPullRequestPushes ==
    {[branch |-> b, head |-> h,
      pr |-> [count |-> 1, base |-> base, baseSha |-> bs, user |-> u]] :
        b \in PullRequestBranches, h \in {"a", "c"}, base \in PullRequestBases,
        bs \in {"a", "c"}, u \in AutomationUsers \cup DependabotUsers \cup OtherUsers}

ValidPullRequestPushes ==
    {p \in AllPullRequestPushes : p.pr.user \in AuthorsOf(p.branch)}

OddPullRequestPushes ==
    {[branch |-> b, head |-> "c",
      pr |-> [count |-> n, base |-> StagingBranch, baseSha |-> "a", user |-> HumanUser]] :
        b \in PullRequestBranches, n \in {0, 2}}

InitPR ==
    /\ runs = [r \in Runs |-> IF r = 1 THEN IdleRun ELSE OffRun]
    /\ remoteTags \in [GitTags -> Commits \cup {None}]
    /\ remoteBranches = [b \in MergebackBranches |-> None]
    /\ registry = NoImages
    /\ pulls = {}
    /\ pushed = {}

\* The pushes to develop
DevelopPushes == {[branch |-> <<"develop">>, head |-> c, pr |-> NoPR] : c \in Commits}

StartPR ==
    \E r \in Runs,
       p \in ValidPullRequestPushes \cup OddPullRequestPushes \cup EnvPushes
              \cup DevelopPushes :
        /\ NextToStart(r)
        /\ SetRun(r, Started(runs[r], p))
        /\ UNCHANGED <<remoteTags, remoteBranches, registry, pulls, pushed>>

NextPR == StartPR \/ Steps \/ MoveTag

SpecPR == InitPR /\ [][NextPR]_vars

\* ------------------------------------------------------------------------
\* Specification: determineMode on the branch names and configurations that
\* tell its tests apart; the invocation is followed no further

\* Configurations: two names for the staging branch; no development branch,
\* one, two, and a list that names env/prod, both staging branches, a hotfix
\* branch and develop
ModeConfigs ==
    [stagingEnvironmentBranch : {StagingBranch, <<"env", "stage">>},
     developmentEnvironmentBranches :
        {<<>>, DevelopmentBranches, << <<"env", "dev">>, <<"env", "demo">> >>,
         << ProdBranch, StagingBranch, <<"env", "stage">>, <<"hotfix", "x">>,
            <<"develop">> >>}]

BranchNames ==
    {ProdBranch, StagingBranch, <<"env", "stage">>, <<"env", "dev">>,
     <<"env", "demo">>, <<"env", "dev2">>, <<"env", "prod", "x">>, <<"env">>,
     <<"environment", "x">>, <<"hotfix", "x">>, <<"hotfix">>, <<"release", "x">>,
     <<"release">>, <<"develop">>, <<"develop", "x">>, <<"feature">>,
     <<"mergeback", "x">>}

InitMode ==
    /\ runs = [r \in Runs |-> IF r = 1 THEN IdleRun ELSE OffRun]
    /\ CleanWorld

StartConfigured ==
    \E r \in Runs, config \in ModeConfigs, branch \in BranchNames :
        /\ NextToStart(r)
        /\ SetRun(r, Started([runs[r] EXCEPT !.config = config],
                             [branch |-> branch, head |-> "a", pr |-> NoPR]))
        /\ UNCHANGED <<remoteTags, remoteBranches, registry, pulls, pushed>>

NextMode == StartConfigured

SpecMode == InitMode /\ [][NextMode]_vars

\* ------------------------------------------------------------------------
\* Specification: buildAndPushDockerImage called, as for a push to the
\* staging branch (checkStrict: false), with lists of several tags as
\* checkBehaviour.alsoCheck, on any registry

AlsoLists ==
    {<<"v1.2.0">>, <<"v1.2.0", "env-dev">>, <<"env-dev", "v1.2.0">>}

InitImage ==
    /\ runs = [r \in Runs |-> IF r = 1 THEN IdleRun ELSE OffRun]
    /\ remoteTags = [t \in GitTags |-> None]
    /\ remoteBranches = [b \in MergebackBranches |-> None]
    /\ registry \in [DockerTags -> Images \cup {NoImage}]
    /\ pulls = {}
    /\ pushed = {}

\* The call, up to the check of the image under the target tag
EnterImageStep ==
    \E r \in Runs, head \in {"a", "c"}, alsoCheck \in AlsoLists :
        LET started == Started(runs[r], [branch |-> StagingBranch, head |-> head,
                                         pr |-> NoPR])
            tag == TargetTag(started)
            pulled == Pulled(Call(Call(started, <<"login">>),
                                  <<"pullImage", tag, PulledImage(tag)>>), tag)
            checked == TargetChecked(pulled, PulledImage(tag))
        IN  /\ NextToStart(r)
            /\ SetRun(r, IF checked.pc = "pullAlso"
                         THEN [checked EXCEPT !.also = alsoCheck]
                         ELSE checked)
            /\ UNCHANGED <<remoteTags, remoteBranches, registry, pulls, pushed>>

NextImage == EnterImageStep \/ PullAlso \/ Build \/ PostCheck \/ PushImage

SpecImage == InitImage /\ [][NextImage]_vars

\* ------------------------------------------------------------------------
\* Properties

RunIds == DOMAIN runs

\* The positions in the log of a run of the calls by the name given
CallsOf(run, name) == {i \in 1..Len(run.calls) : run.calls[i][1] = name}

\* A checkTag call of the log passed: 'match' fetched the tag at the
\* commit the run expects, 'non-existant' could not fetch the tag
CheckPassed(run, call) ==
    IF call[2] = "match" THEN call[4] = "ok" /\ call[5] = run.tagSha
    ELSE call[4] # "ok"

ImageBuildCalls == {"runBuild", "retagImage"}

\* C1: in every run that gives buildAndPushDockerImage a tag postcondition,
\* docker.pushImage is called only after, in the same run, the build or
\* retag has finished and the postcondition was then evaluated and passed;
\* a run whose postcondition failed has thrown and never calls
\* docker.pushImage.
C1_PushOnlyAfterPassedCheck ==
    \A r \in RunIds :
        LET run == runs[r] IN
        run.mode \in {"env-production", "env-staging", "hotfix", "release"} =>
            /\ \A i \in CallsOf(run, "pushImage") :
                  \E j \in CallsOf(run, "checkTag") :
                      /\ j < i
                      /\ CheckPassed(run, run.calls[j])
                      /\ \E k \in 1..(j - 1) :
                            run.calls[k][1] \in ImageBuildCalls
            /\ \A j \in CallsOf(run, "checkTag") :
                  ~CheckPassed(run, run.calls[j]) =>
                      /\ run.pc = "failed"
                      /\ run.result \in
                            {"Tag has changed, aborting", "git fetch failed",
                             "Tag " \o run.calls[j][3] \o " now exists, aborting",
                             "Tag " \o run.calls[j][3]
                                 \o " has been created, aborting"}
                      /\ CallsOf(run, "pushImage") = {}

\* A run has built an image, found its git tag unchanged and pushed the image
C1_Witness ==
    \E r \in RunIds :
        \E k, j, i \in 1..Len(runs[r].calls) :
            /\ k < j /\ j < i
            /\ runs[r].calls[k][1] = "runBuild"
            /\ runs[r].calls[j][1] = "checkTag"
            /\ runs[r].calls[j][2] = "match"
            /\ runs[r].calls[i][1] = "pushImage"

\* C2: the image pushed under docker tag v<version> is always built from
\* the tree of the commit that git tag v<version> points to, so no two
\* images with different embedded trees are ever pushed under one
\* v<version> docker tag, whatever the pushes and their interleaving.
C2_OneTreePerVersionTag ==
    /\ \A e \in pushed :
          e[1] \in GitTags =>
              /\ remoteTags[e[1]] # None
              /\ e[2].treeSha = treeOf[remoteTags[e[1]]]
    /\ \A e1, e2 \in pushed :
          (e1[1] = e2[1] /\ e1[1] \in GitTags) => e1[2].treeSha = e2[2].treeSha

\* Two runs have pushed an image under the same v<version> docker tag
C2_Witness ==
    \E r1, r2 \in RunIds :
        /\ r1 # r2
        /\ \E t \in GitTags :
              /\ \E i \in CallsOf(runs[r1], "pushImage") : runs[r1].calls[i][2] = t
              /\ \E i \in CallsOf(runs[r2], "pushImage") : runs[r2].calls[i][2] = t

\* The runs that have pushed their image
HasPushed(run) == run.atPush # "unset"

TagKept ==
    \A t \in GitTags : remoteTags[t] # None => remoteTags'[t] = remoteTags[t]

NoBumpMessage(run) == "New push to " \o BranchName(run) \o " without bumping version"

\* A production run has ended and the tag of its version points to a
\* commit with another tree than its HEAD: its push would have moved the tag
WouldRebind(run) ==
    /\ run.mode = "env-production"
    /\ run.pc \in {"done", "failed"}
    /\ remoteTags[RunTag(run)] # None
    /\ treeOf[remoteTags[RunTag(run)]] # treeOf[run.head]

\* C4 as stated: every push to env/prod that would bind an existing
\* v<version> tag to another tree fails with 'New push to env/prod without
\* bumping version'.
C4_AsStated ==
    \A r \in RunIds :
        WouldRebind(runs[r]) => runs[r].result = NoBumpMessage(runs[r])

\* C4, amended: a git tag v<version> that exists on the remote never moves,
\* under any interleaving of runs; a push to env/prod that would bind it to
\* another tree fails, with 'New push to env/prod without bumping version'
\* or, when the tag was created after the run looked for it, with the
\* rejection of its `git push` of the tag; and a run pushes a tag only
\* after its fetch reported the tag absent.
C4_TagNeverMoves ==
    /\ [][TagKept]_vars
    /\ [](\A r \in RunIds :
            LET run == runs[r] IN
            /\ WouldRebind(run) =>
                  /\ run.pc = "failed"
                  /\ run.result \in {NoBumpMessage(run), "git push rejected"}
            /\ \A i \in CallsOf(run, "pushTag") :
                  /\ i > 1
                  /\ run.calls[i - 1][1] = "fetchTag"
                  /\ run.calls[i - 1][3] = "absent")

\* A production run created the tag, and a production run on another tree
\* that then found it failed for not bumping the version
C4_Witness ==
    \E r1, r2 \in RunIds :
        /\ CallsOf(runs[r1], "pushTag") # {}
        /\ remoteTags[RunTag(runs[r1])] = runs[r1].head
        /\ WouldRebind(runs[r2])
        /\ runs[r2].result = NoBumpMessage(runs[r2])

\* What the first call of a run to fetchTag found: the commit of the tag,
\* or None when there was no tag or no such call
TagFound(run) ==
    IF Len(run.calls) > 0 /\ run.calls[1][1] = "fetchTag" /\ run.calls[1][3] = "ok"
    THEN run.calls[1][4]
    ELSE None

NamesCalled(run) == {run.calls[i][1] : i \in 1..Len(run.calls)}

\* C5: on a push to env/prod or env/staging whose fetch finds git tag
\* v<version> on the remote: if the tagged commit's tree differs from the
\* tree of HEAD, the run fails with 'New push to <branch> without bumping
\* version' before any docker, deployment, mergeback-branch or pull-request
\* call; if the trees are equal, also when the commits differ, the run goes
\* on to the image step.
C5_TreeDecidesVersionBump ==
    \A r \in RunIds :
        LET run == runs[r]
            found == TagFound(run)
        IN  (run.mode \in {"env-production", "env-staging"} /\ found # None) =>
                IF treeOf[found] # treeOf[run.head]
                THEN /\ run.pc = "failed"
                     /\ run.result = NoBumpMessage(run)
                     /\ NamesCalled(run) = {"fetchTag"}
                ELSE /\ run.result # NoBumpMessage(run)
                     /\ run.pc # "pushTag"
                     /\ run.pc = "pullTarget" \/ "login" \in NamesCalled(run)

\* A run failed for not bumping the version
C5_Witness ==
    \E r \in RunIds :
        /\ runs[r].mode = "env-staging"
        /\ TagFound(runs[r]) # None
        /\ treeOf[TagFound(runs[r])] # treeOf[runs[r].head]
        /\ runs[r].result = "New push to env/staging without bumping version"

\* What the pull of a docker tag by a run found: the image, or NoImage when
\* the tag has no image or the run did not pull it
PullFound(run, tag) ==
    LET is == {i \in CallsOf(run, "pullImage") : run.calls[i][2] = tag} IN
    IF is = {} THEN NoImage ELSE run.calls[CHOOSE i \in is : TRUE][3]

HasPulled(run, tag) ==
    \E i \in CallsOf(run, "pullImage") : run.calls[i][2] = tag

\* The run is in buildAndPushDockerImage or beyond, and looks at the
\* registry before it has pushed anything to it
InImageStep(run) ==
    /\ run.pc \notin {"idle", "off"}
    /\ "login" \in NamesCalled(run)
    /\ pushed = {}

\* C6 as stated: whenever buildAndPushDockerImage runs and the target tag
\* has an image built from the tree of HEAD, the run neither builds nor
\* retags nor pushes.
C6_AsStated ==
    \A r \in RunIds :
        LET run == runs[r] IN
        (/\ InImageStep(run)
         /\ registry[TargetTag(run)] # NoImage
         /\ MatchesHead(run, registry[TargetTag(run)])) =>
            /\ NamesCalled(run) \cap {"runBuild", "retagImage", "pushImage"} = {}
            /\ run.pc \notin {"build", "postcheck", "pushImage"}

\* C6, amended: on a push to env/prod or env/staging (the modes that check
\* for an existing image), when the pull of the target tag gives an image
\* built from the tree of HEAD, buildAndPushDockerImage returns without
\* calling runBuild, retagImage or pushImage, and the run goes on.
C6_MatchingImageIsKept ==
    \A r \in RunIds :
        LET run == runs[r]
            image == PullFound(run, TargetTag(run))
        IN  (/\ run.mode \in {"env-production", "env-staging"}
             /\ image # NoImage
             /\ MatchesHead(run, image)) =>
                /\ NamesCalled(run) \cap {"runBuild", "retagImage", "pushImage"} = {}
                /\ ~HasPulled(run, Head(CheckBehaviour(run).alsoCheck))
                /\ run.pc \in {"deploy", "pushMergeback", "openPR", "done"}

\* A production run found the image of its tree under its tag and is done
C6_Witness ==
    \E r \in RunIds :
        /\ runs[r].mode = "env-production"
        /\ PullFound(runs[r], TargetTag(runs[r])) = ImageOf("a")
        /\ runs[r].head = "b"
        /\ runs[r].pc = "done"

StrictMessage == "Image was built with different tree, aborting"

\* C7 as stated: every push to env/prod that meets an image under
\* v<version> built from another tree than HEAD's fails with 'Image was
\* built with different tree, aborting'.
C7_AsStated ==
    \A r \in RunIds :
        LET run == runs[r] IN
        (/\ run.mode = "env-production"
         /\ run.pc \in {"done", "failed"}
         /\ pushed = {}
         /\ registry[TargetTag(run)] # NoImage
         /\ ~MatchesHead(run, registry[TargetTag(run)])) =>
            run.result = StrictMessage

\* C7, amended: on a push to env/prod that gets past the tag step (tag
\* v<version> was absent and is created, or has the tree of HEAD), if the
\* pull of v<version> gives an image whose embedded tree differs from
\* HEAD's tree, the run fails with 'Image was built with different tree,
\* aborting' before any build: v<version>-pre is not pulled, and runBuild,
\* retagImage and pushImage are never called.
C7_StrictCheckFails ==
    \A r \in RunIds :
        LET run == runs[r]
            image == PullFound(run, TargetTag(run))
        IN  (/\ run.mode = "env-production"
             /\ image # NoImage
             /\ ~MatchesHead(run, image)) =>
                /\ run.pc = "failed"
                /\ run.result = StrictMessage
                /\ ~HasPulled(run, PreTag(TargetTag(run)))
                /\ NamesCalled(run) \cap {"runBuild", "retagImage", "pushImage"} = {}
                /\ NamesCalled(run) \cap {"createDeployment", "pushBranch",
                                          "openPullRequest"} = {}

\* A production run that created its tag found under it an image of
\* another tree, and failed
C7_Witness ==
    \E r \in RunIds :
        /\ runs[r].mode = "env-production"
        /\ CallsOf(runs[r], "pushTag") # {}
        /\ PullFound(runs[r], TargetTag(runs[r])) = ForeignImage
        /\ runs[r].result = StrictMessage

\* The tag a run checks besides its target tag
AlternateTag(run) == Head(CheckBehaviour(run).alsoCheck)

\* C8 as stated: whenever the target tag has no image of HEAD's tree and
\* the alternate tag has one, the run retags and does not build.
C8_AsStated ==
    \A r \in RunIds :
        LET run == runs[r] IN
        (/\ run.mode \in {"env-production", "env-staging"}
         /\ InImageStep(run)
         /\ run.pc \in {"done", "failed"}
         /\ ~MatchesHead(run, registry[TargetTag(run)])
         /\ MatchesHead(run, registry[AlternateTag(run)])) =>
            /\ "retagImage" \in NamesCalled(run)
            /\ "runBuild" \notin NamesCalled(run)

\* C8, amended: when the pull of the target tag gives no image of HEAD's
\* tree and the run goes on to pull the alternate tag (on a production push
\* the target tag then has no image at all: an image of another tree fails
\* the run) and finds there an image of HEAD's tree, the run calls
\* retagImage(alternateTag, targetTag) and never runBuild, and the image it
\* pushes under the target tag, once the tag postcondition has passed, is
\* the one it inspected.
C8_RetagInsteadOfBuild ==
    \A r \in RunIds :
        LET run == runs[r]
            target == TargetTag(run)
            found == PullFound(run, AlternateTag(run))
        IN  (/\ run.mode \in {"env-production", "env-staging"}
             /\ HasPulled(run, AlternateTag(run))
             /\ MatchesHead(run, found)) =>
                /\ ~MatchesHead(run, PullFound(run, target))
                /\ run.mode = "env-production" => PullFound(run, target) = NoImage
                /\ "runBuild" \notin NamesCalled(run)
                /\ run.pc # "build" =>
                      \E i \in CallsOf(run, "retagImage") :
                          run.calls[i] = <<"retagImage", AlternateTag(run), target>>
                /\ "pushImage" \in NamesCalled(run) =>
                      /\ <<target, found>> \in pushed
                      /\ registry[target] = found

\* A staging run retagged the image of a sibling commit and pushed it
C8_Witness ==
    \E r \in RunIds :
        /\ runs[r].mode = "env-staging"
        /\ runs[r].head = "b"
        /\ PullFound(runs[r], TargetTag(runs[r])) = ImageOf("c")
        /\ PullFound(runs[r], AlternateTag(runs[r])) = ImageOf("a")
        /\ "retagImage" \in NamesCalled(runs[r])
        /\ registry[TargetTag(runs[r])] = ImageOf("a")

\* The run has ended, and none of its calls failed for an outside reason
EndedUndisturbed(run) ==
    /\ run.pc \in {"done", "failed"}
    /\ run.result # ExternalFailure

\* second is the push of the tree of first to env/prod, after first succeeded
\* there: the same commit, or a commit on top of it with the same tree
SamePushedAgain(first, second) ==
    /\ first.mode = "env-production"
    /\ first.pc = "done"
    /\ second.mode = "env-production"
    /\ treeOf[second.head] = treeOf[first.head]
    /\ versionOf[second.head] = versionOf[first.head]
    /\ IsAncestor(first.head, second.head)

RerunOf(first, second) ==
    /\ first.mode \in {"env-production", "env-staging"}
    /\ first.pc = "failed"
    /\ second.branch = first.branch
    /\ second.head = first.head

LeftBehind(run) ==
    NamesCalled(run) \cap {"pushTag", "pushBranch", "runBuild", "retagImage"} # {}

TagNotFound(run) ==
    /\ Len(run.calls) > 0
    /\ run.calls[1][1] = "fetchTag"
    /\ run.calls[1][3] = "absent"

\* A step of a staging run leaves the tags of the remote as they are
StagingKeepsTags ==
    \A r \in RunIds :
        (runs[r].mode = "env-staging" /\ runs'[r] # runs[r]) =>
            remoteTags' = remoteTags

C12_AsStated ==
    \A r \in RunIds :
        LET run == runs[r] IN
        /\ \A i \in CallsOf(run, "fetchTag") :
              /\ run.calls[i][3] = "absent" => run.calls[i][4] = None
              /\ run.calls[i][3] \notin {"ok", "absent"} => run.pc = "failed"
        /\ \A j \in CallsOf(run, "checkTag") :
              (run.calls[j][2] = "non-existant"
                  /\ run.calls[j][4] \notin {"ok", "absent"}) =>
                      /\ run.pc = "failed"
                      /\ "pushImage" \notin NamesCalled(run)

\* The step in which a run fails changes nothing on the remote, in the
\* registry or on the forge, and leaves the run with an error thrown
FailureLeavesWorld ==
    \A r \in RunIds :
        (runs[r].pc # "failed" /\ runs'[r].pc = "failed") =>
            /\ UNCHANGED <<remoteTags, remoteBranches, registry, pulls, pushed>>
            /\ runs'[r].result \notin {None, "ok"}
            /\ runs'[r].errorClass \in {"Error", "NoPullRequestError"}

\* A run that has failed does nothing more
FailedRunsRest ==
    \A r \in RunIds :
        runs[r].pc = "failed" => runs'[r] \in {runs[r], OffRun}

\* No step deletes or moves a tag, deletes or rewinds a mergeback branch,
\* deletes an image of the registry or closes a pull request
NothingTakenBack ==
    /\ \A t \in GitTags : remoteTags[t] # None => remoteTags'[t] = remoteTags[t]
    /\ \A b \in MergebackBranches :
          remoteBranches[b] # None =>
              /\ remoteBranches'[b] # None
              /\ IsAncestor(remoteBranches[b], remoteBranches'[b])
    /\ \A t \in DockerTags : registry[t] # NoImage => registry'[t] # NoImage
    /\ pulls \subseteq pulls'

\* C13: a run that fails after side effects (a pushed tag, a pushed image, a
\* deployment request, a pushed mergeback branch) does not undo them: the
\* failing step changes nothing outside the run, the failed run does
\* nothing more, no step at all deletes or rewrites a remote tag, remote
\* branch or registry tag, and the failure is a thrown error.
C13_NoCleanupOnFailure ==
    [][FailureLeavesWorld /\ FailedRunsRest /\ NothingTakenBack]_vars

\* A production run pushed its tag and then failed; the tag is still there
\* when the next run is done
C13_Witness ==
    /\ runs[1].mode = "env-production"
    /\ runs[1].pc = "failed"
    /\ "pushTag" \in NamesCalled(runs[1])
    /\ "pushImage" \notin NamesCalled(runs[1])
    /\ remoteTags[RunTag(runs[1])] = runs[1].head
    /\ runs[2].pc = "done"

\* ------------------------------------------------------------------------
\* Properties of the pull request checks

PullRequestModes == {"hotfix", "release"}

\* The run commented on its pull request or rejected it
PostedOn(run) ==
    \/ HasCall(run, "commentOnPullRequest")
    \/ \E i \in CallsOf(run, "reviewPullRequest") : run.calls[i][2] = "reject"

\* The run built or pushed an image, or ran a CI command
WorkDone(run) ==
    NamesCalled(run) \cap (ImageBuildCalls \cup {"pushImage", "ci"}) # {}

DescendantMessage(run) ==
    BranchName(run) \o " is not a descendant of target (base) branch "
    \o Join(run.pr.base, "/")

\* C14 as stated: a hotfix or release run whose HEAD is not a descendant of
\* the head of the base branch of its pull request fails with '<branch> is
\* not a descendant of target (base) branch <base>', having posted on the
\* pull request and built, pushed and run nothing; a run whose HEAD is a
\* descendant of the head of the base branch, that head itself included,
\* does not fail at this check.
C14_AsStated ==
    \A r \in RunIds :
        LET run == runs[r] IN
        (run.mode \in PullRequestModes /\ HasCall(run, "fetchBranch")) =>
            IF IsAncestor(run.pr.baseSha, run.head)
            THEN run.result # DescendantMessage(run)
            ELSE /\ run.pc = "failed"
                 /\ run.result = DescendantMessage(run)
                 /\ PostedOn(run)
                 /\ ~WorkDone(run)

NoPullRequestMessage(run) ==
    "The branch " \o BranchName(run) \o " has no pull requests open yet, "
    \o "so it is not possible to run this workflow."

\* The run made a call to docker, ran a CI command, or commented on or
\* reviewed a pull request
ActedOrPosted(run) ==
    NamesCalled(run)
        \cap (DockerCalls \cup {"ci", "commentOnPullRequest", "reviewPullRequest"})
    # {}

\* C15: in hotfix, release and other modes, once the open pull requests of
\* the branch are known: with none the run has failed with a
\* NoPullRequestError ('The branch <branch> has no pull requests open yet,
\* so it is not possible to run this workflow.'), with more than one it has
\* failed with a plain Error, in both cases without any docker call, CI
\* command, comment or review; with exactly one it fails with neither.
C15_ExactlyOnePullRequest ==
    \A r \in RunIds :
        LET run == runs[r] IN
        (run.mode \in PullRequestModes \cup {"other"}
            /\ HasCall(run, "getOpenPullRequests")) =>
            /\ run.pr.count = 0 =>
                  /\ run.pc = "failed"
                  /\ run.errorClass = "NoPullRequestError"
                  /\ run.result = NoPullRequestMessage(run)
                  /\ ~ActedOrPosted(run)
            /\ run.pr.count > 1 =>
                  /\ run.pc = "failed"
                  /\ run.errorClass = "Error"
                  /\ run.result \notin {"ok", NoPullRequestMessage(run)}
                  /\ ~ActedOrPosted(run)
            /\ run.pr.count = 1 =>
                  /\ run.errorClass # "NoPullRequestError"
                  /\ run.result # NoPullRequestMessage(run)

\* A hotfix run found no open pull request for its branch
C15_Witness ==
    \E r \in RunIds :
        /\ runs[r].mode = "hotfix"
        /\ runs[r].pr.count = 0
        /\ runs[r].calls = << <<"getOpenPullRequests">> >>
        /\ runs[r].errorClass = "NoPullRequestError"

\* The base of the pull request is one the mode of the run must not target
WrongBase(run) ==
    \/ run.mode = "hotfix" /\ run.pr.base \notin {<<"env", "prod">>, StagingBranch}
    \/ run.mode = "release" /\ run.pr.base # StagingBranch

C17_AsStated ==
    \A r \in RunIds :
        LET run == runs[r] IN
        (run.mode = "hotfix" /\ run.pr.count = 1
            /\ versionOf[run.head] = versionOf[run.pr.baseSha]) =>
            /\ NamesCalled(run) \cap (ImageBuildCalls \cup {"pushImage"}) = {}
            /\ run.pc # "done"
            /\ run.pc = "failed" => PostedOn(run)

\* The position in the log of the call that fetched the tag of the version
\* and found it, or 0
TagFetchedAt(run) ==
    IF \E i \in CallsOf(run, "fetchTag") : run.calls[i][3] = "ok"
    THEN CHOOSE i \in CallsOf(run, "fetchTag") : run.calls[i][3] = "ok"
    ELSE 0

PolicyMessages(run) ==
    {"Pull request from " \o from \o " made against " \o Join(run.pr.base, "/") :
        from \in {"hotfix/ branch", "release/ branch", BranchName(run)}}
    \cup {"Tag already exists for version " \o RunTag(run) \o ", aborting.",
          DescendantMessage(run),
          "Tag " \o RunTag(run) \o " has been created, aborting"}

\* The run has found its pull request to violate the policy: its base is
\* one the branch must not target, the tag of its version is in use, its
\* HEAD does not include the head of the base, or the tag of its version
\* was there after the build
ViolationFound(run) ==
    /\ run.mode \in PullRequestModes \cup {"other"}
    /\ run.pr.count = 1
    /\ \/ /\ HasCall(run, "getOpenPullRequests")
          /\ \/ WrongBase(run)
             \/ /\ run.mode = "other"
                /\ \/ run.pr.base = <<"env", "prod">>
                   \/ /\ run.pr.base = StagingBranch
                      /\ run.branch[1] # "mergeback"
       \/ TagFetchedAt(run) # 0
       \/ HasCall(run, "fetchBranch") /\ ~IsAncestor(run.pr.baseSha, run.head)
       \/ \E i \in CallsOf(run, "checkTag") : run.calls[i][4] = "ok"

\* The last call of the run is a comment or a rejecting review
PostedLast(run) ==
    /\ Len(run.calls) > 0
    /\ run.calls[Len(run.calls)] \in
          {<<"commentOnPullRequest", "failure">>, <<"reviewPullRequest", "reject">>}

ByDependabot(pr) ==
    \/ pr.user.id = DEPENDABOT_USER_ID
    \/ pr.user.login = "dependabot" /\ pr.user.type = "Bot"

ByAutomation(pr) ==
    \/ pr.user.id \in {GITHUB_ACTIONS_USER_ID, UNOCHA_HPC_USER_ID}
    \/ pr.user.login = "github-actions" /\ pr.user.type = "Bot"

\* The run has reached the point where it gives feedback on its pull
\* request: it ended well, or it failed on a violation of the policy
FeedbackDue(run) ==
    /\ run.mode \in PullRequestModes \cup {"other"}
    /\ run.pr.count = 1
    /\ \/ run.pc = "done"
       \/ run.pc = "failed" /\ run.result \in PolicyMessages(run)

LastCall(run) == IF run.calls = <<>> THEN <<>> ELSE run.calls[Len(run.calls)]

\* C20: the feedback on a pull request goes by its author. For a known
\* automation identity the run never reviews, and the feedback is a
\* comment; for the dependency-update bot the run neither comments nor
\* reviews; for every other author the run never comments, and the feedback
\* is a review, approving when the run ended well and rejecting when it
\* failed on a policy violation.
C20_FeedbackByAuthor ==
    \A r \in RunIds :
        LET run == runs[r] IN
        (run.mode \in PullRequestModes \cup {"other"} /\ run.pr.count = 1) =>
            IF ByAutomation(run.pr)
            THEN /\ "reviewPullRequest" \notin NamesCalled(run)
                 /\ FeedbackDue(run) =>
                       LastCall(run) = <<"commentOnPullRequest",
                                         IF run.pc = "done" THEN "success"
                                         ELSE "failure">>
            ELSE IF ByDependabot(run.pr)
            THEN NamesCalled(run)
                    \cap {"commentOnPullRequest", "reviewPullRequest"} = {}
            ELSE /\ "commentOnPullRequest" \notin NamesCalled(run)
                 /\ FeedbackDue(run) =>
                       LastCall(run) = <<"reviewPullRequest",
                                         IF run.pc = "done" THEN "approve"
                                         ELSE "reject">>
                 /\ ~FeedbackDue(run) => "reviewPullRequest" \notin NamesCalled(run)

\* A hotfix run for a pull request of a github-actions bot known by its
\* login built and pushed its image and commented on the pull request
C20_Witness ==
    \E r \in RunIds :
        /\ runs[r].mode = "hotfix"
        /\ runs[r].pr.user.id \notin {GITHUB_ACTIONS_USER_ID, UNOCHA_HPC_USER_ID}
        /\ ByAutomation(runs[r].pr)
        /\ "pushImage" \in NamesCalled(runs[r])
        /\ runs[r].pc = "done"
        /\ LastCall(runs[r]) = <<"commentOnPullRequest", "success">>

\* ------------------------------------------------------------------------
\* Properties of the other modes

\* In mode other, the pull request targets a branch it must not target
OtherWrongBase(run) ==
    \/ run.pr.base = <<"env", "prod">>
    \/ run.pr.base = StagingBranch /\ run.branch[1] # "mergeback"

OtherBaseMessage(run) ==
    "Pull request from " \o BranchName(run) \o " made against "
    \o Join(run.pr.base, "/")

\* The run of mode other knows its one pull request
OtherChecked(run) ==
    /\ run.mode = "other"
    /\ run.pr.count = 1
    /\ HasCall(run, "getOpenPullRequests")

\* C21 as stated: in mode other a pull request against env/prod, or against
\* the staging branch from a branch that is not under mergeback/, has been
\* commented on or rejected, and the run has failed with 'Pull request from
\* <branch> made against <base>' without a CI command; from a branch under
\* mergeback/ a pull request against the staging branch passes the check.
C21_AsStated ==
    \A r \in RunIds :
        LET run == runs[r] IN
        OtherChecked(run) =>
            IF OtherWrongBase(run)
            THEN /\ run.pc = "failed"
                 /\ run.result = OtherBaseMessage(run)
                 /\ PostedLast(run)
                 /\ "ci" \notin NamesCalled(run)
            ELSE /\ run.result # OtherBaseMessage(run)
                 /\ ~PostedOn(run) \/ run.pc = "done"

\* C21: in mode other a pull request against env/prod (also from a branch
\* under mergeback/), or against the staging branch from a branch that is
\* not under mergeback/, makes the run fail with 'Pull request from <branch>
\* made against <base>' without a CI command, after a comment or rejecting
\* review on the pull request unless its author is the dependency-update
\* bot, for whom nothing is posted; any other pull request, one from a
\* branch under mergeback/ against the staging branch among them, passes
\* the check and the run goes on to the CI commands.
C21_OtherBaseChecked ==
    \A r \in RunIds :
        LET run == runs[r] IN
        OtherChecked(run) =>
            IF OtherWrongBase(run)
            THEN /\ run.pc = "failed"
                 /\ run.result = OtherBaseMessage(run)
                 /\ "ci" \notin NamesCalled(run)
                 /\ IF ByDependabot(run.pr)
                    THEN run.calls = << <<"getOpenPullRequests">> >>
                    ELSE Len(run.calls) = 2 /\ PostedLast(run)
            ELSE /\ run.result # OtherBaseMessage(run)
                 /\ \/ run.pc = "runCI" /\ Len(run.calls) = 1
                    \/ "ci" \in NamesCalled(run)

\* A push to a branch under mergeback/ with a pull request against env/prod
\* was rejected
C21_Witness ==
    \E r \in RunIds :
        /\ runs[r].branch = <<"mergeback", "x">>
        /\ runs[r].pr.base = <<"env", "prod">>
        /\ runs[r].result = "Pull request from mergeback/x made against env/prod"
        /\ runs[r].calls = << <<"getOpenPullRequests">>, <<"reviewPullRequest", "reject">> >>

\* C22 as stated: a push to develop has, when it is done, run every
\* configured CI command in order, and has made no other call.
C22_AsStated ==
    \A r \in RunIds :
        (runs[r].mode = "develop" /\ runs[r].pc = "done") =>
            runs[r].calls = [i \in 1..Len(CICommands) |-> <<"ci", CICommands[i]>>]

\* C22: a push to develop does nothing: runAction returns without a call
\* to git, docker or the forge and without running a CI command.
C22_DevelopDoesNothing ==
    \A r \in RunIds :
        runs[r].mode = "develop" =>
            /\ runs[r].calls = <<>>
            /\ runs[r].pc = "done"
            /\ runs[r].result = "ok"

\* A push to develop is done
C22_Witness ==
    \E r \in RunIds :
        /\ runs[r].branch = <<"develop">>
        /\ runs[r].mode = "develop"
        /\ runs[r].pc = "done"

\* The CI commands the run has started, in the order of its log
CIStarted(run) ==
    LET at == CallsOf(run, "ci")
        F[i \in 0..Len(run.calls)] ==
            IF i = 0 THEN <<>>
            ELSE IF i \in at THEN Append(F[i - 1], run.calls[i][2])
            ELSE F[i - 1]
    IN  F[Len(run.calls)]

\* The messages of a failure of the nth CI command
FailuresOf(n) ==
    {"Command \"" \o CICommands[n] \o "\" exited with exit code " \o code :
        code \in {"1", "127", "null"}}

\* C23: the CI commands a run has started are the first ones of the
\* configured list, in its order and one directly after the other; a run
\* that ended well in a mode that runs them has started them all; and a run
\* that failed with 'Command "<command>" exited with exit code <n>' has
\* started the commands up to <command> and none after it, made no call
\* after it, and has posted no comment and no review.
C23_FirstFailingCommandEndsRun ==
    \A r \in RunIds :
        LET run == runs[r]
            ci == CIStarted(run)
        IN  /\ Len(ci) <= Len(CICommands)
            /\ ci = SubSeq(CICommands, 1, Len(ci))
            /\ \A i, j \in CallsOf(run, "ci") :
                  \A k \in i..j : run.calls[k][1] = "ci"
            /\ (run.pc = "done" /\ run.mode \in PullRequestModes \cup {"other"}) =>
                  ci = CICommands
            /\ \A n \in 1..Len(CICommands) :
                  run.result \in FailuresOf(n) =>
                      /\ run.pc = "failed"
                      /\ Len(ci) = n
                      /\ LastCall(run) = <<"ci", CICommands[n]>>
                      /\ NamesCalled(run)
                            \cap {"commentOnPullRequest", "reviewPullRequest"} = {}

\* A hotfix run pushed its image, and its first CI command failed
C23_Witness ==
    \E r \in RunIds :
        /\ runs[r].mode = "hotfix"
        /\ "pushImage" \in NamesCalled(runs[r])
        /\ runs[r].result = "Command \"npm run check-types\" exited with exit code 1"
        /\ CIStarted(runs[r]) = <<"npm run check-types">>
        /\ runs[r].pc = "failed"

\* ------------------------------------------------------------------------
\* Properties of deployment and mergeback

EnvModes == {"env-production", "env-staging"}

\* mergeback/<branch without env/>/<version> for the run
MergebackOf(run) ==
    "mergeback/" \o (IF run.mode = "env-production" THEN "prod" ELSE "staging")
    \o "/" \o versionOf[run.head]

\* The pull request a run that is done has opened
MergebackOpened(run) ==
    <<"openPullRequest",
      IF run.mode = "env-production" THEN "env/staging" ELSE "develop",
      MergebackOf(run), <<"some-label">> >>

\* The step in which a run pushes its mergeback branch leaves that branch
\* of the remote at the HEAD of the run
MergebackPushedAtHead ==
    \A r \in RunIds :
        (runs[r].pc = "pushMergeback" /\ runs'[r].pc = "openPR") =>
            remoteBranches'[MergebackOf(runs[r])] = runs[r].head

\* C24: the last two calls of every production or staging run that is done
\* are the push of branch mergeback/<branch without env/>/<version> at HEAD,
\* which left the branch of the remote at HEAD, and the opening of a pull
\* request with that branch as head, against the staging branch for env/prod
\* and against develop for the staging branch, with the configured labels;
\* the run made no other such call, and the branch and the pull request are
\* there.
C24_MergebackOfSuccessfulRun ==
    /\ [](\A r \in RunIds :
            LET run == runs[r]
                n == Len(run.calls)
            IN  (run.mode \in EnvModes /\ run.pc = "done") =>
                    /\ n >= 2
                    /\ run.calls[n - 1] = <<"pushBranch", MergebackOf(run), run.head>>
                    /\ run.calls[n] = MergebackOpened(run)
                    /\ CallsOf(run, "pushBranch") = {n - 1}
                    /\ CallsOf(run, "openPullRequest") = {n}
                    /\ remoteBranches[MergebackOf(run)] # None
                    /\ IsAncestor(run.head, remoteBranches[MergebackOf(run)])
                    /\ [base |-> run.calls[n][2], head |-> MergebackOf(run),
                        labels |-> <<"some-label">>] \in pulls)
    /\ [][MergebackPushedAtHead]_vars

\* A staging run is done: mergeback/staging/1.2.0 is at its HEAD and a pull
\* request from it against develop is open
C24_Witness ==
    \E r \in RunIds :
        /\ runs[r].mode = "env-staging"
        /\ runs[r].pc = "done"
        /\ remoteBranches["mergeback/staging/1.2.0"] = runs[r].head
        /\ [base |-> "develop", head |-> "mergeback/staging/1.2.0",
            labels |-> <<"some-label">>] \in pulls

\* The createDeployment calls of the run, in the order of its log
DeploymentsRequested(run) ==
    LET at == CallsOf(run, "createDeployment")
        F[i \in 0..Len(run.calls)] ==
            IF i = 0 THEN <<>>
            ELSE IF i \in at THEN Append(F[i - 1], run.calls[i])
            ELSE F[i - 1]
    IN  F[Len(run.calls)]

\* The commit tag v<version> was found at or created at by the run
ResolvedTag(run) == IF TagFound(run) # None THEN TagFound(run) ELSE run.head

\* The createDeployment call due for a binding of the branch of the run
DeploymentDue(run, environment) ==
    IF run.mode = "env-production"
    THEN <<"createDeployment", environment, "v" \o versionOf[run.head],
           ResolvedTag(run), TRUE>>
    ELSE IF run.mode = "env-staging"
    THEN <<"createDeployment", environment, "v" \o versionOf[run.head] \o "-pre",
           run.head, FALSE>>
    ELSE <<"createDeployment", environment, Join(run.branch, "-"), run.head, FALSE>>

\* The createDeployment calls due for the bindings of the configuration
RECURSIVE DeploymentsDue(_, _)
DeploymentsDue(run, bindings) ==
    IF bindings = <<>> THEN <<>>
    ELSE (IF bindings[1].branch = run.branch
          THEN <<DeploymentDue(run, bindings[1].environment)>>
          ELSE <<>>)
         \o DeploymentsDue(run, Tail(bindings))

ImageStepCalls == DockerCalls \cup {"checkTag"}

\* C25: the createDeployment calls of a run are none, or one for each
\* binding of the configuration whose branch is the pushed branch, in the
\* order of the configuration, and they are all there once a production or
\* staging run goes on to the mergeback and a development run is done; each
\* names the docker tag the run used and the commit it resolved: for
\* env/prod the commit of tag v<version> and docker tag v<version>, as a
\* production environment; for the staging branch HEAD and v<version>-pre;
\* for a development branch HEAD and the branch name with dashes. All calls
\* of the image step come before them, and the image step has pulled or
\* built.
C25_DeploymentPerBinding ==
    \A r \in RunIds :
        LET run == runs[r]
            due == DeploymentsDue(run, run.deployments)
            requested == DeploymentsRequested(run)
        IN  /\ requested \in {<<>>, due}
            /\ (\/ run.pc \in {"pushMergeback", "openPR"}
                \/ run.pc = "done"
                   /\ run.mode \in EnvModes \cup {"env-development"}) =>
                   requested = due
            /\ \A i \in CallsOf(run, "createDeployment") :
                  /\ \A j \in 1..Len(run.calls) :
                        run.calls[j][1] \in ImageStepCalls => j < i
                  /\ NamesCalled(run) \cap {"pullImage", "runBuild"} # {}
                  /\ run.result \notin {StrictMessage, "Tag has changed, aborting"}

\* A production run whose tag is at another commit with the tree of HEAD
\* requested a deployment for each of the two bindings of env/prod
C25_Witness ==
    \E r \in RunIds :
        /\ runs[r].mode = "env-production"
        /\ TagFound(runs[r]) \notin {None, runs[r].head}
        /\ DeploymentsRequested(runs[r]) =
              << <<"createDeployment", "prod", "v1.2.0", TagFound(runs[r]), TRUE>>,
                 <<"createDeployment", "prod-mirror", "v1.2.0", TagFound(runs[r]), TRUE>> >>

\* A step of a development run leaves the tags, the mergeback branches and
\* the pull requests as they are
DevelopmentKeepsRepository ==
    \A r \in RunIds :
        (runs[r].mode = "env-development" /\ runs'[r] # runs[r]) =>
            UNCHANGED <<remoteTags, remoteBranches, pulls>>

\* C26: a push to a configured development branch logs in, builds and
\* pushes an image under the branch name with every '/' replaced by '-',
\* and then at most requests deployments: it never pulls or retags an
\* image, never fetches, checks or pushes a git tag, never pushes a
\* mergeback branch or opens a pull request, it does not fail, and after
\* its push the registry holds the image built from HEAD under that tag.
C26_DevelopmentAlwaysBuilds ==
    /\ [](\A r \in RunIds :
            LET run == runs[r]
                tag == Join(run.branch, "-")
            IN  run.mode = "env-development" =>
                    /\ NamesCalled(run)
                          \subseteq {"login", "runBuild", "pushImage", "createDeployment"}
                    /\ run.pc \in {"build", "pushImage", "deploy", "done"}
                    /\ run.pc # "build" =>
                          /\ run.calls[1] = <<"login">>
                          /\ run.calls[2] = <<"runBuild", tag>>
                          /\ CallsOf(run, "runBuild") = {2}
                    /\ run.pc \in {"deploy", "done"} =>
                          /\ run.calls[3] = <<"pushImage", tag>>
                          /\ CallsOf(run, "pushImage") = {3}
                          /\ registry[tag] = ImageOf(run.head)
                          /\ <<tag, ImageOf(run.head)>> \in pushed)
    /\ [][DevelopmentKeepsRepository]_vars

\* A push to env/dev built and pushed env-dev to a registry that holds an
\* image of another tree under another tag, and is done
C26_Witness ==
    \E r \in RunIds :
        /\ runs[r].branch = <<"env", "dev">>
        /\ runs[r].pc = "done"
        /\ registry["env-dev"] = ImageOf(runs[r].head)
        /\ \E t \in DockerTags \ {"env-dev"} :
              registry[t] \notin {NoImage, ImageOf(runs[r].head)}
        /\ "pushImage" \in NamesCalled(runs[r])

\* ------------------------------------------------------------------------
\* Properties of determineMode

Modes ==
    {"env-production", "env-staging", "env-development", "hotfix", "release",
     "develop", "other"}

\* The branch is in the list of development branches of the configuration
Listed(run) ==
    \E i \in 1..Len(run.config.developmentEnvironmentBranches) :
        run.config.developmentEnvironmentBranches[i] = run.branch

\* The branch name starts with the prefix and a '/'
Under(run, prefix) == Len(run.branch) > 1 /\ run.branch[1] = prefix

\* The run has thrown the error of determineMode
Rejected(run) ==
    /\ run.pc = "failed"
    /\ run.mode = "error"
    /\ run.result =
          "Invalid development branch: " \o Join(run.branch, "/")
          \o ", must be one of: "
          \o Join([i \in 1..Len(run.config.developmentEnvironmentBranches) |->
                      Join(run.config.developmentEnvironmentBranches[i], "/")],
                  ", ")

\* C27: for every configuration and branch name determineMode gives
\* env-production for env/prod; else env-staging for the staging branch;
\* else env-development for a listed development branch; else, for a branch
\* under env/, the error 'Invalid development branch: <branch>, must be one
\* of: <the development branches, separated by ", ">'; else hotfix under
\* hotfix/; else release under release/; else develop for develop; else
\* other. So it gives one of the seven modes unless it throws, and never
\* throws for env/prod or the staging branch.
C27_ModeByOrderedTests ==
    \A r \in RunIds :
        LET run == runs[r] IN
        run.pc \notin {"idle", "off"} =>
            /\ IF run.branch = <<"env", "prod">> THEN run.mode = "env-production"
               ELSE IF run.branch = run.config.stagingEnvironmentBranch
               THEN run.mode = "env-staging"
               ELSE IF Listed(run) THEN run.mode = "env-development"
               ELSE IF Under(run, "env") THEN Rejected(run)
               ELSE IF Under(run, "hotfix") THEN run.mode = "hotfix"
               ELSE IF Under(run, "release") THEN run.mode = "release"
               ELSE IF run.branch = <<"develop">> THEN run.mode = "develop"
               ELSE run.mode = "other"
            /\ run.mode \in Modes \/ Rejected(run)
            /\ (run.branch \in {<<"env", "prod">>, run.config.stagingEnvironmentBranch}) =>
                  ~Rejected(run)

\* env/staging is rejected where env/stage is the staging branch and two
\* development branches are configured
C27_Witness ==
    \E r \in RunIds :
        /\ runs[r].config.stagingEnvironmentBranch = <<"env", "stage">>
        /\ runs[r].branch = <<"env", "staging">>
        /\ runs[r].result = "Invalid development branch: env/staging, "
                            \o "must be one of: env/dev, env/demo"
        /\ runs[r].pc = "failed"

\* ------------------------------------------------------------------------
\* Properties of the image step

\* The positions in the log of the pulls of the tags of alsoCheck that
\* found an image with the tree of HEAD
MatchingPulls(run) ==
    {i \in CallsOf(run, "pullImage") :
        /\ \E j \in CallsOf(run, "pullImage") : j < i
        /\ run.calls[i][3].treeSha = treeOf[run.head]}

FirstOf(positions) == CHOOSE i \in positions : \A j \in positions : i <= j

FoundOtherTree(run, tag) ==
    /\ PullFound(run, tag) # NoImage
    /\ PullFound(run, tag).treeSha # treeOf[run.head]

\* C29: a staging run that finds under v<version>-pre an image of another
\* tree than HEAD's does not fail with 'Image was built with different
\* tree, aborting': its next call is the pull of v<version>; if that gives
\* an image with the tree of HEAD the run retags it, and if not the run
\* builds v<version>-pre, and once it has pushed what it built the registry
\* holds the image of HEAD under v<version>-pre. A production run that
\* finds under v<version> an image of another tree has failed with that
\* error, and no production run is done while the image under v<version>
\* is of another tree.
C29_OnlyProductionIsStrict ==
    \A r \in RunIds :
        LET run == runs[r]
            tag == "v" \o versionOf[run.head]
            preTag == tag \o "-pre"
        IN  /\ (run.mode = "env-staging" /\ FoundOtherTree(run, preTag)) =>
                  /\ run.result # StrictMessage
                  /\ run.pc # "pullAlso" =>
                        /\ HasPulled(run, tag)
                        /\ \A i \in CallsOf(run, "pullImage") :
                              run.calls[i][2] = preTag =>
                                  run.calls[i + 1][1] = "pullImage"
                                  /\ run.calls[i + 1][2] = tag
                  /\ (HasPulled(run, tag) /\ run.pc # "build") =>
                        IF PullFound(run, tag).treeSha = treeOf[run.head]
                        THEN /\ "retagImage" \in NamesCalled(run)
                             /\ "runBuild" \notin NamesCalled(run)
                        ELSE /\ "retagImage" \notin NamesCalled(run)
                             /\ <<"runBuild", preTag>>
                                   \in {run.calls[i] : i \in CallsOf(run, "runBuild")}
                  /\ ({"runBuild", "pushImage"} \subseteq NamesCalled(run)) =>
                        registry[preTag] = ImageOf(run.head)
            /\ (run.mode = "env-production" /\ FoundOtherTree(run, tag)) =>
                  /\ run.pc = "failed"
                  /\ run.result = StrictMessage
            /\ (run.mode = "env-production" /\ run.pc = "done") =>
                  /\ registry[tag] # NoImage
                  /\ registry[tag].treeSha = treeOf[run.head]

\* A staging run found an image of another tree under v1.2.0-pre and none
\* under v1.2.0, built, pushed and is done
C29_Witness ==
    \E r \in RunIds :
        /\ runs[r].mode = "env-staging"
        /\ FoundOtherTree(runs[r], "v1.2.0-pre")
        /\ HasPulled(runs[r], "v1.2.0")
        /\ PullFound(runs[r], "v1.2.0") = NoImage
        /\ registry["v1.2.0-pre"] = ImageOf(runs[r].head)
        /\ runs[r].pc = "done"

\* ------------------------------------------------------------------------
\* C30: the conditional tag postcondition of a staging push

\* What the conditional postcondition asks of the remote tag v<version>,
\* for a run that has retagged or built its image
PostconditionHolds(run) ==
    LET remote == remoteTags[RunTag(run)] IN
    IF run.existing # None /\ run.tagSha # None
    THEN remote = run.tagSha
    ELSE remote = None

\* A staging run goes from its postcondition on to docker.pushImage
PassesPostcondition(r) ==
    /\ runs[r].mode = "env-staging"
    /\ runs[r].pc = "postcheck"
    /\ runs'[r].pc = "pushImage"

\* C30 as stated: on a staging push the image v<version>-pre is pushed only
\* after the postcondition was evaluated, and only if it holds of the remote
\* at that moment: retagged with the tag known at the start, the tag is still
\* at the same sha; retagged with no tag known, or freshly built, the tag
\* does not exist on the remote.
C30_AsStated ==
    /\ [](\A r \in RunIds :
            (runs[r].mode = "env-staging" /\ "pushImage" \in NamesCalled(runs[r]))
                => "checkTag" \in NamesCalled(runs[r]))
    /\ [][\A r \in RunIds :
            PassesPostcondition(r) => PostconditionHolds(runs[r])]_vars

\* The same, for every postcondition whose fetch git does not reject
C30_UnlessFetchRejected ==
    [][\A r \in RunIds :
         (PassesPostcondition(r)
            /\ GitFetchTag(runs[r].localRef,
                           remoteTags[RunTag(runs[r])]) # "rejected")
                => PostconditionHolds(runs[r])]_vars

\* A staging run that built its image with the tag known, and pushed it
\* while the tag was on the remote at another commit
C30_PushedOverMovedTag ==
    \E r \in RunIds :
        /\ runs[r].mode = "env-staging"
        /\ runs[r].existing = None
        /\ runs[r].tagSha # None
        /\ "pushImage" \in NamesCalled(runs[r])
        /\ runs[r].atPush \notin {None, runs[r].tagSha}

\* ------------------------------------------------------------------------
\* Specification: runAction from the event on, with the preconditions that
\* come before the dispatch on the mode

\* GITHUB_EVENT_NAME
EventNames == {"push", "pull_request"}

\* payload.ref, as the segments between its slashes
HeadsRef(branch) == <<"refs", "heads">> \o branch

TagRefs == {<<"refs", "tags", "v0.0.0">>, <<"refs", "tags", "v1.2.0">>,
            <<"refs", "tags", "v1.2.0-pre">>}

OtherRefs == {<<"refs", "pull", "1", "merge">>}

\* ref.startsWith('refs/tags/')
IsTagRef(ref) == Len(ref) >= 3 /\ SubSeq(ref, 1, 2) = <<"refs", "tags">>

\* BRANCH_EXTRACT.exec(ref): the branch of refs/heads/<branch>, or no match
BranchOfRef(ref) ==
    IF Len(ref) >= 3 /\ SubSeq(ref, 1, 2) = <<"refs", "heads">>
    THEN SubSeq(ref, 3, Len(ref))
    ELSE <<>>

\* What package.json is at HEAD: a manifest with a version string, no file,
\* a file that is no JSON, or a version that is no string
Manifests == {"ok", "missing", "invalid json", "invalid version"}

MaxRemotes == 2

SkipMessage == "##[info] Push is for tag, skipping action"

\* readRefShaAndVersion() for HEAD
ManifestError(manifest, sha) ==
    IF manifest = "missing"
    THEN "Unable to read version from package.json: File not found in commit "
         \o sha
    ELSE IF manifest = "invalid json"
    THEN "Unable to read version from package.json: Invalid JSON"
    ELSE "Invalid version in package.json"

\* The branch pushes of this specification: those of the other
\* specifications and a push to an environment branch that is not configured
EventPushes ==
    AllPushes \cup DevelopPushes
    \cup {[branch |-> <<"env", "unlisted">>, head |-> "a", pr |-> NoPR]}

CheckedOut(p) == {p.branch, <<"main">>, <<>>}

Events ==
    {[name |-> n, ref |-> ref, remotes |-> k, manifest |-> m,
      currentBranch |-> cb, push |-> p] :
        n \in EventNames, ref \in TagRefs \cup OtherRefs, k \in 0..MaxRemotes,
        m \in Manifests, cb \in {<<"main">>, <<>>},
        p \in {[branch |-> <<"main">>, head |-> "a", pr |-> NoPR]}}
    \cup UNION {{[name |-> n, ref |-> HeadsRef(p.branch), remotes |-> k,
                  manifest |-> m, currentBranch |-> cb, push |-> p] :
                    n \in EventNames, k \in 0..MaxRemotes, m \in Manifests,
                    cb \in CheckedOut(p)} : p \in EventPushes}

\* A runAction that takes a tag ref for any other ref
runActionOnEveryRef(run, ev) ==
    LET p == [ev.push EXCEPT !.branch = BranchOfRef(ev.ref)] IN
    IF ev.name # "push"
    THEN Throw(run, "Unsupported GITHUB_EVENT_NAME: " \o ev.name)
    ELSE IF ev.remotes # 1
    THEN Throw(run, "Exactly 1 remote expected in repository")
    ELSE IF ev.manifest # "ok"
    THEN Throw(run, ManifestError(ev.manifest, ev.push.head))
    ELSE IF BranchOfRef(ev.ref) = <<>>
    THEN Throw(run, "Unable to extract branch name from ref")
    ELSE IF determineMode(run.config, p.branch) = "error"
    THEN Started(run, p)
    ELSE IF ev.currentBranch = <<>>
    THEN Throw(run, "no branch is currently checked out")
    ELSE IF ev.currentBranch # p.branch
    THEN Throw(run, "incorrect branch currently checked-out")
    ELSE Started(run, p)

\* A runAction that does not compare the checked-out branch with the
\* branch of the event
runActionOnAnyCheckout(run, ev) ==
    LET p == [ev.push EXCEPT !.branch = BranchOfRef(ev.ref)] IN
    IF ev.name # "push"
    THEN Throw(run, "Unsupported GITHUB_EVENT_NAME: " \o ev.name)
    ELSE IF IsTagRef(ev.ref)
    THEN Return(Call(run, <<"log", SkipMessage>>))
    ELSE IF ev.remotes # 1
    THEN Throw(run, "Exactly 1 remote expected in repository")
    ELSE IF ev.manifest # "ok"
    THEN Throw(run, ManifestError(ev.manifest, ev.push.head))
    ELSE IF BranchOfRef(ev.ref) = <<>>
    THEN Throw(run, "Unable to extract branch name from ref")
    ELSE Started(run, p)

\* runAction up to the dispatch on the mode: the event, the remotes, the
\* manifest at HEAD, the branch of the ref, determineMode (which throws for
\* an environment branch that is not configured) and the checked-out branch
runAction(run, ev) ==
    LET p == [ev.push EXCEPT !.branch = BranchOfRef(ev.ref)] IN
    IF ev.name # "push"
    THEN Throw(run, "Unsupported GITHUB_EVENT_NAME: " \o ev.name)
    ELSE IF IsTagRef(ev.ref)
    THEN Return(Call(run, <<"log", SkipMessage>>))
    ELSE IF ev.remotes # 1
    THEN Throw(run, "Exactly 1 remote expected in repository")
    ELSE IF ev.manifest # "ok"
    THEN Throw(run, ManifestError(ev.manifest, ev.push.head))
    ELSE IF BranchOfRef(ev.ref) = <<>>
    THEN Throw(run, "Unable to extract branch name from ref")
    ELSE IF determineMode(run.config, p.branch) = "error"
    THEN Started(run, p)
    ELSE IF ev.currentBranch = <<>>
    THEN Throw(run, "no branch is currently checked out")
    ELSE IF ev.currentBranch # p.branch
    THEN Throw(run, "incorrect branch currently checked-out")
    ELSE Started(run, p)

InitEvent ==
    /\ runs = [r \in Runs |-> IF r = 1 THEN IdleRun ELSE OffRun]
    /\ remoteTags \in [GitTags -> Commits \cup {None}]
    /\ remoteBranches = [b \in MergebackBranches |-> None]
    /\ registry = NoImages
    /\ pulls = {}
    /\ pushed = {}

\* The event file is read
Received(run, ev) == [run EXCEPT !.event = ev]

StartEvent ==
    \E r \in Runs, ev \in Events :
        /\ NextToStart(r)
        /\ SetRun(r, runAction(Received(runs[r], ev), ev))
        /\ UNCHANGED <<remoteTags, remoteBranches, registry, pulls, pushed>>

NextEvent == StartEvent \/ Steps

SpecEvent == InitEvent /\ [][NextEvent]_vars

\* C31: a push event whose ref is a tag ref is skipped: the run logs the
\* skip and returns successfully, with no git, docker or forge call, with
\* nothing read of the repository (no branch, HEAD or mode is determined,
\* whatever the remotes, the manifest and the checked-out branch are), and
\* no step follows; the remote, the registry and the forge stay as they were.
C31_TagPushSkipped ==
    /\ [](\A r \in RunIds :
            LET run == runs[r] IN
            (run.event.name = "push" /\ IsTagRef(run.event.ref)) =>
                /\ run.pc = "done"
                /\ run.result = "ok"
                /\ run.calls = <<<<"log", SkipMessage>>>>
                /\ run.mode = None /\ run.head = None /\ run.branch = <<>>)
    /\ [][\A r \in RunIds :
            (runs'[r].event.name = "push" /\ IsTagRef(runs'[r].event.ref)) =>
                UNCHANGED <<remoteTags, remoteBranches, registry, pulls, pushed>>]_vars

\* A tag push is skipped in a repository without remote and manifest, for
\* the tag that a production run pushes
C31_Witness ==
    \E r \in RunIds :
        /\ runs[r].event.name = "push"
        /\ runs[r].event.ref = <<"refs", "tags", "v1.2.0">>
        /\ runs[r].event.remotes = 0
        /\ runs[r].event.manifest = "missing"
        /\ runs[r].pc = "done"

\* The event of a run is a push to a branch
BranchPush(run) ==
    run.event.name = "push" /\ BranchOfRef(run.event.ref) # <<>>

\* The precondition that the run's event breaks first, in the order of the
\* code; None if it breaks none
BrokenPrecondition(run) ==
    LET ev == run.event IN
    IF ev.remotes # 1 THEN "Exactly 1 remote expected in repository"
    ELSE IF ev.manifest # "ok" THEN ManifestError(ev.manifest, ev.push.head)
    ELSE IF determineMode(run.config, BranchOfRef(ev.ref)) = "error"
    THEN InvalidBranch(run.config, BranchOfRef(ev.ref))
    ELSE IF ev.currentBranch = <<>> THEN "no branch is currently checked out"
    ELSE IF ev.currentBranch # BranchOfRef(ev.ref)
    THEN "incorrect branch currently checked-out"
    ELSE None

\* C32: a branch push in a repository that has not exactly one remote, whose
\* manifest at HEAD is missing, unparseable or without a version string, or
\* whose checked-out branch is not the branch of the event ref, fails with
\* the error of the first precondition it breaks, before the dispatch on the
\* mode: the run has made no call (no git push, docker or forge call), and
\* the remote, the registry and the forge are as they were.
C32_PreconditionsBeforeDispatch ==
    /\ [](\A r \in RunIds :
            LET run == runs[r]
                ev == run.event
            IN  (BranchPush(run)
                    /\ (\/ ev.remotes # 1
                        \/ ev.manifest # "ok"
                        \/ ev.currentBranch # BranchOfRef(ev.ref))) =>
                    /\ run.pc = "failed"
                    /\ run.errorClass = "Error"
                    /\ run.result = BrokenPrecondition(run)
                    /\ run.calls = <<>>)
    /\ [][\A r \in RunIds :
            (BranchPush(runs'[r]) /\ BrokenPrecondition(runs'[r]) # None) =>
                UNCHANGED <<remoteTags, remoteBranches, registry, pulls, pushed>>]_vars

\* A push to env/prod, with one remote and a good manifest, run in a clone
\* that has another branch checked out
C32_Witness ==
    \E r \in RunIds :
        /\ runs[r].event.name = "push"
        /\ runs[r].event.ref = HeadsRef(ProdBranch)
        /\ runs[r].event.remotes = 1
        /\ runs[r].event.manifest = "ok"
        /\ runs[r].event.currentBranch = <<"main">>
        /\ runs[r].result = "incorrect branch currently checked-out"

\* ------------------------------------------------------------------------
\* C33: the order of the steps of a production or staging run

\* The step of the production/staging workflow a call belongs to
StepOfCall(name) ==
    IF name \in {"fetchTag", "pushTag"} THEN 1
    ELSE IF name \in ImageStepCalls THEN 2
    ELSE IF name = "createDeployment" THEN 3
    ELSE IF name = "pushBranch" THEN 4
    ELSE 5

\* The tag step of the run is over: the tag was found with the tree of HEAD,
\* or was not found and, for production, created and pushed
TagStepPassed(run) ==
    /\ Len(run.calls) > 0
    /\ run.calls[1][1] = "fetchTag"
    /\ \/ run.calls[1][3] = "ok" /\ treeOf[run.calls[1][4]] = treeOf[run.head]
       \/ run.calls[1][3] = "absent"
          /\ (run.mode = "env-production" =>
                 Len(run.calls) > 1 /\ run.calls[2][1] = "pushTag")

\* buildAndPushDockerImage has returned: it found the image of the target
\* tag built from the tree of HEAD, or it pushed the image
ImageStepPassed(run) ==
    \/ "pushImage" \in NamesCalled(run)
    \/ \E i \in CallsOf(run, "pullImage") :
          /\ run.calls[i][2] = TargetTag(run)
          /\ run.calls[i][3] # NoImage
          /\ run.calls[i][3].treeSha = treeOf[run.head]

\* C33: the calls of a production or staging run come in the order tag
\* step, image step, deployment requests, push of the mergeback branch,
\* opening of the pull request; no call of a step is made unless every
\* earlier step has passed (the tag found or created, the image found or
\* pushed, every deployment due requested, the mergeback branch on the
\* remote), and a run that has failed makes no further call. So a run that
\* opened its mergeback pull request has passed its image step and made its
\* deployment requests.
C33_StepsInOrder ==
    /\ [](\A r \in RunIds :
            LET run == runs[r]
                names == NamesCalled(run)
            IN  run.mode \in EnvModes =>
                /\ \A i, j \in 1..Len(run.calls) :
                      i < j => StepOfCall(run.calls[i][1]) <= StepOfCall(run.calls[j][1])
                /\ (names \cap ImageStepCalls # {}) => TagStepPassed(run)
                /\ ("createDeployment" \in names \/ "pushBranch" \in names) =>
                      /\ TagStepPassed(run)
                      /\ ImageStepPassed(run)
                /\ "pushBranch" \in names =>
                      DeploymentsRequested(run) = DeploymentsDue(run, run.deployments)
                /\ "openPullRequest" \in names =>
                      /\ "pushBranch" \in names
                      /\ remoteBranches[MergebackOf(run)] # None
                      /\ run.pc = "done"
                /\ run.pc = "done" => "openPullRequest" \in names)
    /\ [][\A r \in RunIds :
            runs[r].pc = "failed" =>
                /\ runs'[r] \in {runs[r], OffRun}
                /\ runs'[r].calls \in {runs[r].calls, <<>>}]_vars

\* A production run that created its tag, pushed its image, requested its
\* deployment and opened its pull request, after a run that failed while
\* pushing its mergeback branch
C33_Witness ==
    \E r, q \in RunIds :
        /\ runs[q].mode \in EnvModes
        /\ runs[q].pc = "failed"
        /\ "createDeployment" \in NamesCalled(runs[q])
        /\ "openPullRequest" \notin NamesCalled(runs[q])
        /\ runs[r].mode = "env-production"
        /\ runs[r].pc = "done"
        /\ {"pushTag", "pushImage", "createDeployment", "pushBranch",
            "openPullRequest"} \subseteq NamesCalled(runs[r])

\* ------------------------------------------------------------------------
\* C34: image, CI commands and feedback of a hotfix or release run

\* The comment or review of a run that ended well
SuccessPosts ==
    {<<"commentOnPullRequest", "success">>, <<"reviewPullRequest", "approve">>}

\* The run failed in a CI command
CIFailed(run) == \E n \in 1..Len(CICommands) : run.result \in FailuresOf(n)

ProductionWithoutTag(run) ==
    /\ run.mode = "env-production"
    /\ Len(run.calls) > 0
    /\ run.calls[1][1] = "fetchTag"
    /\ run.calls[1][3] = "absent"

\* The run failed after it had pushed its tag and before
\* buildAndPushDockerImage returned
FailedInImageStep(run) ==
    /\ run.pc = "failed"
    /\ Len(run.calls) > 1
    /\ run.calls[2][1] = "pushTag"
    /\ run.result # "git push rejected"
    /\ ~ImageStepPassed(run)

\* C35: a production run that found no tag v<version> has pushed the tag,
\* at its HEAD, as its second call, before every docker call; once it has
\* made a docker call the tag is on the remote at its HEAD; and when it
\* has failed in its image step, the tag is on the remote and the run has
\* pushed no image.
C35_TagBeforeImage ==
    \A r \in RunIds :
        LET run == runs[r]
            tag == "v" \o versionOf[run.head]
        IN  ProductionWithoutTag(run) =>
            /\ (NamesCalled(run) \cap DockerCalls # {}) =>
                  /\ run.calls[2] = <<"pushTag", tag, run.head>>
                  /\ \A i \in 1..Len(run.calls) :
                        run.calls[i][1] \in DockerCalls => i > 2
                  /\ remoteTags[tag] = run.head
            /\ FailedInImageStep(run) =>
                  /\ remoteTags[tag] = run.head
                  /\ "pushImage" \notin NamesCalled(run)

\* A production run pushed tag v1.2.0, logged in to docker, built its image
\* and failed before pushing it; the registry has no image v1.2.0
C35_Witness ==
    \E r \in RunIds :
        /\ ProductionWithoutTag(runs[r])
        /\ FailedInImageStep(runs[r])
        /\ "runBuild" \in NamesCalled(runs[r])
        /\ remoteTags["v1.2.0"] = runs[r].head
        /\ registry["v1.2.0"] = NoImage

\* ------------------------------------------------------------------------
\* C36: what one run posts on the pull request

\* The comment or review of a run that failed on the policy
FailurePosts ==
    {<<"commentOnPullRequest", "failure">>, <<"reviewPullRequest", "reject">>}

\* The comments and reviews of a run, as positions of its call log
PostsOf(run) ==
    CallsOf(run, "commentOnPullRequest") \cup CallsOf(run, "reviewPullRequest")

\* C36: a run posts at most one comment or review on the pull request, as
\* its last call. A run that failed, whether in a policy check, in its image
\* step or in a CI command, has posted no success comment and no approving
\* review; a run that returned has posted no failure comment and no
\* rejecting review.
C36_OnePostMatchingOutcome ==
    \A r \in RunIds :
        LET run == runs[r] IN
        /\ Cardinality(PostsOf(run)) <= 1
        /\ \A i \in PostsOf(run) :
              /\ i = Len(run.calls)
              /\ run.calls[i] \in SuccessPosts \cup FailurePosts
              /\ run.calls[i] \in SuccessPosts => run.pc = "done"
              /\ run.calls[i] \in FailurePosts =>
                    run.pc = "failed" /\ run.result \in PolicyMessages(run)
        /\ run.pc = "failed" =>
              \A i \in PostsOf(run) : run.calls[i] \notin SuccessPosts
        /\ (run.pc = "done" /\ run.result = "ok") =>
              \A i \in PostsOf(run) : run.calls[i] \notin FailurePosts

\* A release run whose tag appeared during the build rejected its pull
\* request after it had built its image
C36_Witness ==
    \E r \in RunIds :
        /\ runs[r].mode = "release"
        /\ runs[r].pc = "failed"
        /\ "runBuild" \in NamesCalled(runs[r])
        /\ LastCall(runs[r]) = <<"reviewPullRequest", "reject">>
        /\ Cardinality(PostsOf(runs[r])) = 1

\* ------------------------------------------------------------------------
\* Specification: a push on any remote and registry, run and then run again,
\* with nobody else changing the remote or the registry

InitRerun ==
    /\ runs = [r \in Runs |-> IF r <= 2 THEN IdleRun ELSE OffRun]
    /\ remoteTags \in [GitTags -> Commits \cup {None}]
    /\ remoteBranches = [b \in MergebackBranches |-> None]
    /\ registry \in {reg \in [DockerTags -> Images \cup {NoImage}] :
                        \A t \in DockerTags \ (GitTags \cup {PreTag(g) : g \in GitTags}) :
                            reg[t] = NoImage}
    /\ pulls = {}
    /\ pushed = {}

\* The push of an earlier run, for a run that is not the first
Rerun(r, p) ==
    \A q \in Runs :
        q < r => /\ Terminated(runs[q])
                 /\ p.branch = runs[q].branch
                 /\ p.head = runs[q].head
                 /\ p.pr = runs[q].pr

StartRerun ==
    \E r \in Runs, p \in AllPushes :
        /\ NextToStart(r)
        /\ Rerun(r, p)
        /\ SetRun(r, Started(runs[r], p))
        /\ UNCHANGED <<remoteTags, remoteBranches, registry, pulls, pushed>>

NextRerun == StartRerun \/ Steps

SpecRerun == InitRerun /\ [][NextRerun]_vars

\* The staging run found tag v<version> on the remote with the tree of HEAD
\* and has pulled v<version>-pre and v<version>, neither of which is an image
\* of that tree
StagingWithTagWithoutImage(run) ==
    LET tag == "v" \o versionOf[run.head]
        pulls2 == CallsOf(run, "pullImage")
    IN  /\ run.mode = "env-staging"
        /\ Len(run.calls) > 0
        /\ run.calls[1][1] = "fetchTag"
        /\ run.calls[1][3] = "ok"
        /\ treeOf[run.calls[1][4]] = treeOf[run.head]
        /\ {run.calls[i][2] : i \in pulls2} = {tag, tag \o "-pre"}
        /\ \A i \in pulls2 : run.calls[i][3].treeSha # treeOf[run.head]

\* The run has failed with 'Tag v<version> now exists, aborting' after it
\* built v<version>-pre, and has not pushed it
FailedOnExistingTag(run) ==
    LET tag == "v" \o versionOf[run.head] IN
    /\ run.pc = "failed"
    /\ run.result = "Tag " \o tag \o " now exists, aborting"
    /\ <<"runBuild", tag \o "-pre">> \in {run.calls[i] : i \in 1..Len(run.calls)}
    /\ "retagImage" \notin NamesCalled(run)
    /\ "pushImage" \notin NamesCalled(run)

====
